---- MODULE Spec2Model ----
(***************************************************************************)
(* Model of backend/main.py: the multi-platform publish handlers           *)
(* (publish_to_wordpress, publish_to_facebook, publish_to_instagram,       *)
(* publish_to_threads, publish_to_pixnet) and the token refresh routines   *)
(* (refresh_threads_token, refresh_instagram_token).                       *)
(*                                                                         *)
(* Python values are records tagged by the field t.  A str is a sequence   *)
(* of characters; the characters of the model are TLA+ strings, so that    *)
(* the JSON text kept in the images column can really be parsed.           *)
(***************************************************************************)
EXTENDS Integers, Sequences, FiniteSets, TLC

\* ------------------------------------------------------------------ bounds
MaxItems == 2        \* longest item list of a batch request
MaxTicks == 2        \* how many times the clock advances in a behaviour
MaxTokens == 1       \* how many new tokens the provider issues per platform
MaxTokenItems == 1   \* longest item list of a request to a token platform

\* ------------------------------------------------------- program constants
DefaultTTL == 5184000      \* "expires_in": 5184000
RefreshMargin == 86400     \* expires_in - 86400

\* ------------------------------------------------------------ Python values
PyNone == [t |-> "none"]
PyStr(s) == [t |-> "str", s |-> s]
PyList(v) == [t |-> "list", v |-> v]
PyDict(ks, vs) == [t |-> "dict", ks |-> ks, vs |-> vs]
PyNum(n) == [t |-> "num", n |-> n]

\* bool(x) of Python
Truthy(x) ==
  CASE x.t = "none" -> FALSE
    [] x.t = "str" -> x.s # <<>>
    [] x.t = "list" -> x.v # <<>>
    [] x.t = "dict" -> x.ks # <<>>
    [] x.t = "num" -> x.n # 0
    [] OTHER -> TRUE

\* a or b
PyOr(a, b) == IF Truthy(a) THEN a ELSE b

\* d.get(key): the value under key, None when the key is absent
DictGet(d, key) ==
  IF \E i \in 1..Len(d.ks) : d.ks[i] = key
  THEN d.vs[CHOOSE i \in 1..Len(d.ks) : d.ks[i] = key]
  ELSE PyNone

\* ------------------------------------------------------------- json.loads
\* The characters "[", "]", "{", "}", ",", ":", the quote Q and the word
\* "null" are JSON syntax and a blank between them is skipped; any other
\* character is text.
Q == "\""
ParseFail == [ok |-> FALSE, v |-> PyNone, i |-> 0]

\* the first position at or after i that holds no blank
RECURSIVE SkipBlanks(_, _)
SkipBlanks(tx, i) ==
  IF i <= Len(tx) /\ tx[i] = " " THEN SkipBlanks(tx, i + 1) ELSE i

\* a parsed value with the blanks behind it skipped
Trimmed(tx, r) == IF r.ok THEN [r EXCEPT !.i = SkipBlanks(tx, r.i)] ELSE r

\* the position of the first quote at or after i, 0 when there is none
RECURSIVE NextQuote(_, _)
NextQuote(tx, i) ==
  IF i > Len(tx) THEN 0
  ELSE IF tx[i] = Q THEN i
  ELSE NextQuote(tx, i + 1)

RECURSIVE ParseValue(_, _), ParseToken(_, _), ParseElems(_, _, _), ParseMembers(_, _, _, _)
\* one JSON value at or after position i, blanks around it skipped:
\* [ok, v, i] with i the next position
ParseValue(tx, i) == Trimmed(tx, ParseToken(tx, SkipBlanks(tx, i)))

\* one JSON value starting at position i
ParseToken(tx, i) ==
  IF i > Len(tx) THEN ParseFail
  ELSE CASE tx[i] = "null" -> [ok |-> TRUE, v |-> PyNone, i |-> i + 1]
         [] tx[i] = Q ->
              LET j == NextQuote(tx, i + 1) IN
              IF j = 0 THEN ParseFail
              ELSE [ok |-> TRUE, v |-> PyStr(SubSeq(tx, i + 1, j - 1)), i |-> j + 1]
         [] tx[i] = "[" ->
              IF SkipBlanks(tx, i + 1) <= Len(tx) /\ tx[SkipBlanks(tx, i + 1)] = "]"
              THEN [ok |-> TRUE, v |-> PyList(<<>>), i |-> SkipBlanks(tx, i + 1) + 1]
              ELSE ParseElems(tx, i + 1, <<>>)
         [] tx[i] = "{" ->
              IF SkipBlanks(tx, i + 1) <= Len(tx) /\ tx[SkipBlanks(tx, i + 1)] = "}"
              THEN [ok |-> TRUE, v |-> PyDict(<<>>, <<>>), i |-> SkipBlanks(tx, i + 1) + 1]
              ELSE ParseMembers(tx, i + 1, <<>>, <<>>)
         [] OTHER -> ParseFail

\* the elements of an array, the first starting at i
ParseElems(tx, i, acc) ==
  LET e == ParseValue(tx, i) IN
  IF ~e.ok \/ e.i > Len(tx) THEN ParseFail
  ELSE IF tx[e.i] = "]" THEN [ok |-> TRUE, v |-> PyList(Append(acc, e.v)), i |-> e.i + 1]
  ELSE IF tx[e.i] = "," THEN ParseElems(tx, e.i + 1, Append(acc, e.v))
  ELSE ParseFail

\* the members of an object, the first key starting at i
ParseMembers(tx, i, ks, vs) ==
  LET key == ParseValue(tx, i) IN
  IF ~key.ok \/ key.v.t # "str" \/ key.i > Len(tx) \/ tx[key.i] # ":" THEN ParseFail
  ELSE LET e == ParseValue(tx, key.i + 1) IN
       IF ~e.ok \/ e.i > Len(tx) THEN ParseFail
       ELSE IF tx[e.i] = "}"
            THEN [ok |-> TRUE, v |-> PyDict(Append(ks, key.v.s), Append(vs, e.v)), i |-> e.i + 1]
       ELSE IF tx[e.i] = ","
            THEN ParseMembers(tx, e.i + 1, Append(ks, key.v.s), Append(vs, e.v))
       ELSE ParseFail

\* a parse that ends before the end of the text is a JSONDecodeError too
WholeText(tx, r) ==
  IF r.ok /\ r.i = Len(tx) + 1 THEN [ok |-> TRUE, v |-> r.v] ELSE [ok |-> FALSE, v |-> PyNone]

\* json.loads(text): [ok, v]; ok = FALSE is JSONDecodeError
JsonLoads(tx) == WholeText(tx, ParseValue(tx, 1))

\* ------------------------------------------------------------- json.dumps
RECURSIVE JsonDumps(_), DumpElems(_, _), DumpMembers(_, _, _)
\* json.dumps(v, ensure_ascii=False): the separators are ", " and ": "
JsonDumps(v) ==
  CASE v.t = "none" -> <<"null">>
    [] v.t = "str" -> <<Q>> \o v.s \o <<Q>>
    [] v.t = "list" -> <<"[">> \o DumpElems(v.v, 1) \o <<"]">>
    [] v.t = "dict" -> <<"{">> \o DumpMembers(v.ks, v.vs, 1) \o <<"}">>

\* the elements of a list from the i-th on
DumpElems(es, i) ==
  IF i > Len(es) THEN <<>>
  ELSE (IF i > 1 THEN <<",", " ">> ELSE <<>>) \o JsonDumps(es[i]) \o DumpElems(es, i + 1)

\* the members of a dict from the i-th on
DumpMembers(ks, vs, i) ==
  IF i > Len(ks) THEN <<>>
  ELSE (IF i > 1 THEN <<",", " ">> ELSE <<>>)
       \o <<Q>> \o ks[i] \o <<Q, ":", " ">> \o JsonDumps(vs[i]) \o DumpMembers(ks, vs, i + 1)

\* ------------------------------------------------------------------ values
Platforms == {"wordpress", "facebook", "instagram", "threads", "pixnet"}
TokenPlatforms == {"instagram", "threads"}
ImagePlatforms == {"facebook", "instagram", "threads"}

NoTime == -1                     \* last_refresh is None
AltTTL == RefreshMargin + 20     \* a validity window a provider may advertise instead

Str(c) == PyStr(<<c>>)           \* a one-character str
EmptyStr == PyStr(<<>>)

\* A row of the article table, as the select of the handlers returns it.
Article(url, tt, ct, tm, cm, images) ==
  [t |-> "row", url |-> url, title_translated |-> tt, content_translated |-> ct,
   title_modified |-> tm, content_modified |-> cm, images |-> images]
NoRow == [t |-> "norow"]
Unbound == [t |-> "unbound"]     \* the local news_item before its first assignment

JsonUrlList == PyStr(<<"[", Q, "i1", Q, ",", Q, "i2", Q, "]">>)
JsonUrlObject == PyStr(<<"{", Q, "url", Q, ":", Q, "i1", Q, "}">>)
NativeUrlList == PyList(<<Str("i1"), Str("i2")>>)
NativeUrlObject == PyDict(<<(<<"url">>)>>, <<Str("i1")>>)

GoodArticle == Article(Str("u1"), Str("T"), Str("C"), PyNone, PyNone, JsonUrlList)

\* The rows article 2 is drawn from: every way a row can be (in)eligible.
ArticleShapes ==
  { Article(Str("u2"), Str("T"), Str("C"), Str("M"), Str("N"), NativeUrlList),
    Article(Str("u2"), Str("T"), Str("C"), EmptyStr, PyNone, NativeUrlObject),
    Article(Str("u2"), EmptyStr, Str("C"), PyNone, PyNone, NativeUrlList),
    Article(Str("u2"), Str("T"), PyNone, PyNone, PyNone, JsonUrlList),
    Article(Str("u2"), Str("T"), Str("C"), PyNone, PyNone, PyNone),
    Article(Str("u2"), PyNone, Str("C"), PyNone, PyNone, PyNone),
    Article(Str("u2"), Str("T"), Str("C"), PyNone, PyNone, EmptyStr),
    Article(Str("u2"), Str("T"), Str("C"), PyNone, PyNone, PyStr(<<"[", "]">>)),
    Article(Str("u2"), Str("T"), Str("C"), PyNone, PyNone, PyList(<<>>)),
    Article(Str("u2"), Str("T"), Str("C"), PyNone, PyNone, Str("i1")),
    Article(Str("u2"), Str("T"), Str("C"), PyNone, PyNone, JsonUrlObject),
    Article(Str("u2"), Str("T"), Str("C"), PyNone, PyNone, PyList(<<NativeUrlObject>>)),
    Article(EmptyStr, Str("T"), Str("C"), PyNone, PyNone, NativeUrlList),
    Article(PyNone, Str("T"), Str("C"), PyNone, PyNone, NativeUrlList),
    Article(PyNone, EmptyStr, Str("C"), PyNone, PyNone, NativeUrlList),
    Article(PyNone, Str("T"), Str("C"), PyNone, PyNone, PyNone) }

ArticleIds == {1, 2}
RequestIds == {1, 2, 3}          \* 3 is never the id of a stored article

\* PublishItem: news_id and the optional selected_image.  The requests
\* name a selected image for article 2 only, the article whose row varies;
\* PixnetPublishRequest carries ids alone.
PublishItem(id, sel) == [news_id |-> id, selected_image |-> sel]
ItemChoices(p) ==
  {PublishItem(id, PyNone) : id \in RequestIds}
  \cup (IF p = "pixnet" THEN {} ELSE {PublishItem(2, Str("s1"))})

\* item lists of length 0..MaxItems
ItemLists(p) ==
  UNION {[1..n -> ItemChoices(p)] : n \in 0..MaxItems}

\* ------------------------------------------------- content of one article
\* title = news_item.get("title_modified") or news_item.get("title_translated", "")
EffectiveTitle(row) == PyOr(row.title_modified, row.title_translated)
\* content = news_item.get("content_modified") or news_item.get("content_translated", "")
EffectiveContent(row) == PyOr(row.content_modified, row.content_translated)

\* the check with "if not title:" only
EligibleTitleOnly(row) == Truthy(EffectiveTitle(row))

\* if not title or not content: raise ValueError
Eligible(row) == Truthy(EffectiveTitle(row)) /\ Truthy(EffectiveContent(row))

\* The choice of the first entry that unwraps an object found in the array.
FirstOfUnwrapped(loaded) ==
  IF ~loaded.ok THEN PyNone
  ELSE IF ~Truthy(loaded.v) THEN PyNone
  ELSE CASE loaded.v.t = "list" ->
              IF loaded.v.v[1].t = "dict" THEN DictGet(loaded.v.v[1], <<"url">>)
              ELSE loaded.v.v[1]
         [] loaded.v.t = "dict" -> DictGet(loaded.v, <<"url">>)
         [] OTHER -> PyNone

\* images_list[0] if isinstance(images_list, list) else images_list.get("url"),
\* under "if images_list and len(images_list) > 0"; loaded = [ok, v] is what
\* images_list was bound from
FirstOf(loaded) ==
  IF ~loaded.ok THEN PyNone
  ELSE IF ~Truthy(loaded.v) THEN PyNone
  ELSE CASE loaded.v.t = "list" -> loaded.v.v[1]
         [] loaded.v.t = "dict" -> DictGet(loaded.v, <<"url">>)
         [] OTHER -> PyNone

\* The fallback without json.loads: a str is taken for the list itself.
FirstImageUnparsed(images) ==
  IF ~Truthy(images) THEN PyNone
  ELSE FirstOf([ok |-> TRUE, v |-> images])

\* The fallback of the image choice: the first entry of the images column.
\* Any exception inside the try (a JSON error, len() of a number, .get of a
\* str) leaves image_to_use None.
FirstImage(images) ==
  IF ~Truthy(images) THEN PyNone
  ELSE FirstOf(IF images.t = "str" THEN JsonLoads(images.s) ELSE [ok |-> TRUE, v |-> images])

\* image_to_use: the caller's image when given, else the fallback
ImageToUse(selected_image, row) ==
  IF Truthy(selected_image) THEN selected_image ELSE FirstImage(row.images)

\* ------------------------------------------------------ external responses
\* What a platform call can answer: an exception of requests (timeout,
\* connection error, a body that is not JSON), a non-success status, a
\* success status with the identifier, a success status without it.
HttpOutcomes == {"exc", "bad", "ok_id", "ok_noid"}
\* The answers of the calls one item can make, in the order it makes them:
\* read is the store's, first..third the platform's.  A call that is not
\* made has no answer: its field is "none".
\*   wordpress: download, upload (after a download), post
\*   facebook, pixnet: the one post
\*   instagram, threads: container (first), publish (after a container id)
ItemEnvs(p) ==
  LET all == [read : {"ok", "exc"},
              first : HttpOutcomes \cup {"ok_err", "none"},
              second : HttpOutcomes \cup {"none"},
              third : HttpOutcomes \cup {"none"}]
      Made(e) ==
        /\ e.first = "ok_err" => p = "pixnet"
        /\ e.read = "exc" => e.first = "none" /\ e.second = "none" /\ e.third = "none"
        /\ e.read = "ok" =>
             /\ e.first # "none"
             /\ p = "wordpress" =>
                  /\ e.first # "ok_noid"
                  /\ (e.second = "none") = (e.first \in {"exc", "bad"})
                  /\ e.third # "none"
             /\ p \in {"instagram", "threads"} =>
                  /\ (e.second = "none") = (e.first # "ok_id")
                  /\ e.third = "none"
             /\ p \in {"facebook", "pixnet"} => e.second = "none" /\ e.third = "none"
  IN {e \in all : Made(e)}

\* The answers drawn for the requests to a token platform: the store read
\* returns, the container call is refused or gives an id, the publish call
\* gives an id.
TokenItemEnvs ==
  {e \in ItemEnvs("threads") :
     e.read = "ok" /\ e.first \in {"bad", "ok_id"} /\ e.second \in {"none", "ok_id"}}

\* a logged external call: the operation, the item position (0 = batch
\* level), the token it carried (-1 = none) and what it referred to
Call(op, k, tok, ref) == [op |-> op, k |-> k, tok |-> tok, ref |-> ref]

\* the identifier a platform returns for item k
PlatformId(prefix, k) == PyStr(<<prefix, ToString(k)>>)

\* One result record of a batch (WordPressPublishResult and its siblings).
Result(news_id, news_url, post_id, success, error) ==
  [news_id |-> news_id, news_url |-> news_url, post_id |-> post_id,
   success |-> success, error |-> error]

\* what the try block of one item ends with: err = "" when it reached the
\* success record, else the class of the exception raised
Tried(err, row, post_id, calls) ==
  [err |-> err, row |-> row, post_id |-> post_id, calls |-> calls]

\* Fetch without "if not response.data: raise ValueError": response.data[0]
\* of an empty list raises IndexError instead.
FetchUnchecked(it, k, st, env, prev) ==
  LET get == Call("store_select", k, -1, PyNum(it.news_id)) IN
  IF env.read = "exc" \/ it.news_id \notin DOMAIN st \/ st[it.news_id] = NoRow
  THEN Tried("exception", prev, PyNone, <<get>>)
  ELSE IF ~Eligible(st[it.news_id])
       THEN Tried("empty_title_or_content", st[it.news_id], PyNone, <<get>>)
  ELSE Tried("", st[it.news_id], PyNone, <<get>>)

\* The store read of item k and the checks that follow it, the same in the
\* five handlers: the select by id, "not found", the eligibility check.
\* row is what news_item is bound to afterwards (prev when not rebound).
Fetch(it, k, st, env, prev) ==
  LET get == Call("store_select", k, -1, PyNum(it.news_id)) IN
  IF env.read = "exc" THEN Tried("exception", prev, PyNone, <<get>>)
  ELSE IF it.news_id \notin DOMAIN st \/ st[it.news_id] = NoRow
       THEN Tried("not_found", prev, PyNone, <<get>>)
  ELSE IF ~Eligible(st[it.news_id])
       THEN Tried("empty_title_or_content", st[it.news_id], PyNone, <<get>>)
  ELSE Tried("", st[it.news_id], PyNone, <<get>>)

\* ------------------------------------------------------- the try blocks
\* Each Try operator is the try block of a handler after the checks of
\* Fetch: f is what Fetch left, image the image_to_use of the item.

\* upload_image_to_wordpress: the media id, None on any failure.  An image
\* that is not a str makes requests raise before anything is sent.
UploadImageToWordpress(image, k, env) ==
  LET dl == Call("wp_download", k, -1, image)
      up == Call("wp_upload", k, -1, image)
  IN IF image.t # "str" THEN [media |-> PyNone, calls |-> <<>>]
     ELSE IF env.first \in {"exc", "bad"} THEN [media |-> PyNone, calls |-> <<dl>>]
     ELSE IF env.second = "ok_id" THEN [media |-> PlatformId("m", k), calls |-> <<dl, up>>]
     ELSE [media |-> PyNone, calls |-> <<dl, up>>]

\* post_data: a draft, with featured_media when there is a media id
PostData(featured_media_id) ==
  IF Truthy(featured_media_id)
  THEN [status |-> "draft", format |-> "standard", featured_media |-> featured_media_id]
  ELSE [status |-> "draft", format |-> "standard"]

\* the post of publish_to_wordpress, img being what the image step left
WordpressPost(f, img, k, env) ==
  LET calls == f.calls \o img.calls \o <<Call("wp_post", k, -1, PostData(img.media))>>
  IN CASE env.third = "exc" -> Tried("exception", f.row, PyNone, calls)
       [] env.third = "bad" -> Tried("api_status", f.row, PyNone, calls)
       [] env.third = "ok_id" -> Tried("", f.row, PlatformId("p", k), calls)
       [] OTHER -> Tried("", f.row, PyNone, calls)

\* A WordPress item that gives up when its image could not be uploaded.
TryWordpressNeedsMedia(f, image, k, env, tok) ==
  IF Truthy(image) /\ ~Truthy(UploadImageToWordpress(image, k, env).media)
  THEN Tried("image_upload_failed", f.row, PyNone,
             f.calls \o UploadImageToWordpress(image, k, env).calls)
  ELSE WordpressPost(f,
                     IF Truthy(image) THEN UploadImageToWordpress(image, k, env)
                     ELSE [media |-> PyNone, calls |-> <<>>],
                     k, env)

\* publish_to_wordpress
TryWordpress(f, image, k, env, tok) ==
  WordpressPost(f,
                IF Truthy(image) THEN UploadImageToWordpress(image, k, env)
                ELSE [media |-> PyNone, calls |-> <<>>],
                k, env)

\* publish_to_facebook without "if not image_to_use: raise ValueError"
TryFacebookAnyImage(f, image, k, env, tok) ==
  LET calls == f.calls \o <<Call("fb_photo", k, -1, image)>>
  IN CASE env.first = "exc" -> Tried("exception", f.row, PyNone, calls)
       [] env.first = "bad" -> Tried("api_status", f.row, PyNone, calls)
       [] env.first = "ok_id" -> Tried("", f.row, PlatformId("p", k), calls)
       [] OTHER -> Tried("", f.row, PyNone, calls)

\* A Facebook post that counts an answer without post_id and id as a failure.
TryFacebookStrict(f, image, k, env, tok) ==
  IF ~Truthy(image) THEN Tried("image_required", f.row, PyNone, f.calls)
  ELSE CASE env.first = "exc" ->
              Tried("exception", f.row, PyNone, f.calls \o <<Call("fb_photo", k, -1, image)>>)
         [] env.first = "bad" ->
              Tried("api_status", f.row, PyNone, f.calls \o <<Call("fb_photo", k, -1, image)>>)
         [] env.first = "ok_id" ->
              Tried("", f.row, PlatformId("p", k), f.calls \o <<Call("fb_photo", k, -1, image)>>)
         [] OTHER ->
              Tried("no_post_id", f.row, PyNone, f.calls \o <<Call("fb_photo", k, -1, image)>>)

\* publish_to_facebook with a second attempt after a refused photo post
TryFacebookRetry(f, image, k, env, tok) ==
  LET post == Call("fb_photo", k, -1, image)
  IN IF ~Truthy(image) THEN Tried("image_required", f.row, PyNone, f.calls)
     ELSE CASE env.first = "exc" -> Tried("exception", f.row, PyNone, f.calls \o <<post>>)
            [] env.first = "bad" -> Tried("api_status", f.row, PyNone, f.calls \o <<post, post>>)
            [] env.first = "ok_id" -> Tried("", f.row, PlatformId("p", k), f.calls \o <<post>>)
            [] OTHER -> Tried("", f.row, PyNone, f.calls \o <<post>>)

\* publish_to_facebook
TryFacebook(f, image, k, env, tok) ==
  LET calls == f.calls \o <<Call("fb_photo", k, -1, image)>>
  IN IF ~Truthy(image) THEN Tried("image_required", f.row, PyNone, f.calls)
     ELSE CASE env.first = "exc" -> Tried("exception", f.row, PyNone, calls)
            [] env.first = "bad" -> Tried("api_status", f.row, PyNone, calls)
            [] env.first = "ok_id" -> Tried("", f.row, PlatformId("p", k), calls)
            [] OTHER -> Tried("", f.row, PyNone, calls)

\* the limits of a Threads text and of an Instagram caption, and how much
\* of a longer text is kept in front of "..."
ThreadsLimit == 500
ThreadsKeep == 497
InstagramLimit == 2200
InstagramKeep == 2197
Ellipsis == <<".", ".", ".">>

\* f"{title}\n\n{content}", and "\n\n🔗 {news_url}" after it if news_url;
\* "@" stands for the one character of the link sign
PostText(row) ==
  EffectiveTitle(row).s \o <<"\n", "\n">> \o EffectiveContent(row).s
  \o (IF Truthy(row.url) THEN <<"\n", "\n", "@", " ">> \o row.url.s ELSE <<>>)

\* a cut that keeps limit characters in front of "..."
TruncateAfterLimit(text, limit, keep) ==
  IF Len(text) > limit THEN SubSeq(text, 1, limit) \o Ellipsis ELSE text

\* if len(text) > 500: text = text[:497] + "..."
Truncate(text, limit, keep) ==
  IF Len(text) > limit THEN SubSeq(text, 1, keep) \o Ellipsis ELSE text

\* the call that creates a container: a call that carries the post text
TextCall(op, k, tok, ref, text) ==
  [op |-> op, k |-> k, tok |-> tok, ref |-> ref, text |-> text]

\* Two calls of which the second is made whatever the first answered.
TwoPhaseUnchecked(f, image, k, env, tok, create_op, publish_op, settle, text) ==
  IF env.first = "exc"
  THEN Tried("exception", f.row, PyNone,
             f.calls \o <<TextCall(create_op, k, tok, image, text)>>)
  ELSE Tried(IF env.first = "ok_id" /\ env.second = "ok_id" THEN "" ELSE "api_status",
             f.row,
             IF env.first = "ok_id" /\ env.second = "ok_id" THEN PlatformId("p", k) ELSE PyNone,
             f.calls \o <<TextCall(create_op, k, tok, image, text)>> \o settle
                     \o <<Call(publish_op, k, tok,
                                IF env.first = "ok_id" THEN PlatformId("c", k) ELSE PyNone)>>)

\* The two-phase flow of Instagram and Threads: the container, then (on
\* Instagram after time.sleep(5)) its publication.
TwoPhase(f, image, k, env, tok, create_op, publish_op, settle, text) ==
  LET create == <<TextCall(create_op, k, tok, image, text)>>
      container == PlatformId("c", k)
      publish == settle \o <<Call(publish_op, k, tok, container)>>
  IN CASE env.first = "exc" -> Tried("exception", f.row, PyNone, f.calls \o create)
       [] env.first = "bad" -> Tried("api_status", f.row, PyNone, f.calls \o create)
       [] env.first = "ok_noid" -> Tried("no_creation_id", f.row, PyNone, f.calls \o create)
       [] OTHER ->
            CASE env.second = "exc" ->
                   Tried("exception", f.row, PyNone, f.calls \o create \o publish)
              [] env.second = "bad" ->
                   Tried("api_status", f.row, PyNone, f.calls \o create \o publish)
              [] env.second = "ok_id" ->
                   Tried("", f.row, PlatformId("p", k), f.calls \o create \o publish)
              [] OTHER -> Tried("", f.row, PyNone, f.calls \o create \o publish)

\* publish_to_instagram
TryInstagram(f, image, k, env, tok) ==
  IF ~Truthy(image) THEN Tried("image_required", f.row, PyNone, f.calls)
  ELSE TwoPhase(f, image, k, env, tok, "ig_create", "ig_publish",
                <<Call("sleep", k, -1, PyNum(5))>>,
                Truncate(PostText(f.row), InstagramLimit, InstagramKeep))

\* publish_to_threads
TryThreads(f, image, k, env, tok) ==
  IF ~Truthy(image) THEN Tried("image_required", f.row, PyNone, f.calls)
  ELSE TwoPhase(f, image, k, env, tok, "th_create", "th_publish", <<>>,
                Truncate(PostText(f.row), ThreadsLimit, ThreadsKeep))

\* "use_oauth2 = True", set once before the loop and never assigned again
use_oauth2 == TRUE
\* the one request of an item to the PIXNET API: bearer token or signed
PixnetPost(k, post_data) ==
  IF use_oauth2 THEN Call("px_post_oauth2", k, -1, post_data)
  ELSE Call("px_post_oauth1", k, -1, post_data)

\* The paragraphs of html_content, one element per f-string appended: an
\* image paragraph with its src, a paragraph of text, the source link.
ImgPara(src) == [tag |-> "img", v |-> src]
TextPara(line) == [tag |-> "p", v |-> PyStr(line)]
SourcePara(url) == [tag |-> "source", v |-> url]

\* the whitespace str.strip() removes, as far as the texts here have any
Whitespace == {" ", "\t"}
RECURSIVE PyLStrip(_)
PyLStrip(s) == IF s # <<>> /\ Head(s) \in Whitespace THEN PyLStrip(Tail(s)) ELSE s
RECURSIVE PyRStrip(_)
PyRStrip(s) ==
  IF s # <<>> /\ s[Len(s)] \in Whitespace THEN PyRStrip(SubSeq(s, 1, Len(s) - 1)) ELSE s
\* s.strip()
PyStrip(s) == PyRStrip(PyLStrip(s))

\* s.split(sep) for a one-character sep: the pieces between the separators
RECURSIVE PySplit(_, _)
PySplit(s, sep) ==
  IF \A i \in 1..Len(s) : s[i] # sep THEN <<s>>
  ELSE <<SubSeq(s, 1, (CHOOSE i \in 1..Len(s) : s[i] = sep /\ \A j \in 1..(i - 1) : s[j] # sep) - 1)>>
       \o PySplit(SubSeq(s, (CHOOSE i \in 1..Len(s) : s[i] = sep /\ \A j \in 1..(i - 1) : s[j] # sep) + 1,
                          Len(s)), sep)

\* "for para in paragraphs: para = para.strip(); if para: ..."
RECURSIVE ContentParas(_)
ContentParas(lines) ==
  IF lines = <<>> THEN <<>>
  ELSE (IF PyStrip(Head(lines)) # <<>> THEN <<TextPara(PyStrip(Head(lines)))>> ELSE <<>>)
       \o ContentParas(Tail(lines))

\* what "for img_url in images_list" goes through: the elements of a list,
\* the keys of a dict, the characters of a str
Iterated(v) ==
  CASE v.t = "list" -> v.v
    [] v.t = "dict" -> [i \in 1..Len(v.ks) |-> PyStr(v.ks[i])]
    [] OTHER -> [i \in 1..Len(v.s) |-> Str(v.s[i])]

\* "if isinstance(img_url, str) and img_url": one image paragraph each
RECURSIVE ImageParas(_)
ImageParas(elems) ==
  IF elems = <<>> THEN <<>>
  ELSE (IF Head(elems).t = "str" /\ Truthy(Head(elems)) THEN <<ImgPara(Head(elems))>> ELSE <<>>)
       \o ImageParas(Tail(elems))

\* the image paragraphs of what json.loads gave (or of the structured
\* value): a JSON error, or len() of a number, is caught and leaves none
LoadedImageParas(loaded) ==
  IF ~loaded.ok THEN <<>>
  ELSE IF ~Truthy(loaded.v) THEN <<>>
  ELSE IF loaded.v.t \in {"list", "dict", "str"} THEN ImageParas(Iterated(loaded.v))
  ELSE <<>>

\* the "if images:" block
PixnetImageParas(images) ==
  IF ~Truthy(images) THEN <<>>
  ELSE LoadedImageParas(IF images.t = "str" THEN JsonLoads(images.s)
                        ELSE [ok |-> TRUE, v |-> images])

\* html_content: the images, the lines of the content, the source link
PixnetBody(row) ==
  PixnetImageParas(row.images)
  \o ContentParas(PySplit(EffectiveContent(row).s, "\n"))
  \o (IF Truthy(row.url) THEN <<SourcePara(row.url)>> ELSE <<>>)

\* post_data without the status, which comes from the request
PixnetPostData(row) == [title |-> EffectiveTitle(row), body |-> PixnetBody(row)]

\* publish_to_pixnet; the images go into the body
TryPixnet(f, image, k, env, tok) ==
  LET calls == f.calls \o <<PixnetPost(k, PixnetPostData(f.row))>>
  IN CASE env.first = "exc" -> Tried("exception", f.row, PyNone, calls)
       [] env.first = "bad" -> Tried("api_status", f.row, PyNone, calls)
       [] env.first = "ok_err" -> Tried("api_error", f.row, PyNone, calls)
       [] env.first = "ok_id" -> Tried("", f.row, PlatformId("p", k), calls)
       [] OTHER -> Tried("", f.row, EmptyStr, calls)

\* the rest of the try block of platform p once the checks of Fetch passed
Publish(p, f, image, k, env, tok) ==
  CASE p = "wordpress" -> TryWordpress(f, image, k, env, tok)
    [] p = "facebook" -> TryFacebook(f, image, k, env, tok)
    [] p = "instagram" -> TryInstagram(f, image, k, env, tok)
    [] p = "threads" -> TryThreads(f, image, k, env, tok)
    [] OTHER -> TryPixnet(f, image, k, env, tok)

\* the try block after its store read: an exception of the checks ends it
AfterFetch(p, f, it, k, env, tok) ==
  IF f.err # "" THEN f
  ELSE Publish(p, f, ImageToUse(it.selected_image, f.row), k, env, tok)

\* the try block of platform p for item k
TryItem(p, it, k, st, env, prev, tok) ==
  AfterFetch(p, Fetch(it, k, st, env, prev), it, k, env, tok)

\* news_url: str of the result models: pydantic refuses anything else
ValidUrl(url) == url.t = "str"

\* The end of an iteration whose try block ended as tr: the success record,
\* or the except block.  raised = TRUE when the except block itself raises,
\* which ends the handler with the exception.
\* except: news_url = news_item.get("url", "") if "news_item" in locals() else ""
Outcome(it, tr) ==
  LET err == IF tr.err = "" /\ ~ValidUrl(tr.row.url) THEN "exception" ELSE tr.err
      url == IF tr.row.t = "unbound" THEN EmptyStr ELSE tr.row.url
  IN IF err = ""
     THEN [raised |-> FALSE, row |-> tr.row, calls |-> tr.calls,
           result |-> Result(it.news_id, tr.row.url, tr.post_id, TRUE, "")]
     ELSE [raised |-> ~ValidUrl(url), row |-> tr.row, calls |-> tr.calls,
           result |-> Result(it.news_id, url, PyNone, FALSE, err)]

\* One iteration of the item loop.
ItemStep(p, it, k, st, env, prev, tok) ==
  Outcome(it, TryItem(p, it, k, st, env, prev, tok))

\* ---------------------------------------------------------- token refresh
\* threads_token_data / instagram_token_data
TokenData(tok, last, ttl) == [access_token |-> tok, last_refresh |-> last, expires_in |-> ttl]

\* What the refresh endpoint can answer to a token: an exception, a non-200
\* status, a 200 without access_token, a 200 with a new token and either no
\* expires_in (the default applies) or an advertised one.
RefreshOutcomes(td) ==
  { [kind |-> "exc", token |-> -1, expires_in |-> 0],
    [kind |-> "bad", token |-> -1, expires_in |-> 0],
    [kind |-> "ok_notoken", token |-> -1, expires_in |-> 0] }
  \cup { [kind |-> "ok", token |-> td.access_token + 1, expires_in |-> ttl] :
           ttl \in IF td.access_token < MaxTokens THEN {DefaultTTL, AltTTL} ELSE {} }

\* Freshness tests that differ from the code's: one that still holds at the
\* threshold age, one that takes a token never refreshed for fresh.
FreshAtThreshold(td, t) ==
  td.last_refresh # NoTime /\ t - td.last_refresh <= td.expires_in - RefreshMargin
FreshWhenNeverRefreshed(td, t) ==
  td.last_refresh = NoTime \/ t - td.last_refresh < td.expires_in - RefreshMargin

\* if threads_token_data["last_refresh"] is not None and
\*    time_since_refresh.total_seconds() < expires_in - 86400: no refresh
ThreadsTokenFresh(td, t) ==
  td.last_refresh # NoTime /\ t - td.last_refresh < td.expires_in - RefreshMargin

\* the same test of refresh_instagram_token
InstagramTokenFresh(td, t) ==
  td.last_refresh # NoTime /\ t - td.last_refresh < td.expires_in - RefreshMargin

\* what a refresh routine leaves: the token data, the settings table, the
\* token it returns, the calls it made
Refreshed(td, sett, token, calls) == [td |-> td, settings |-> sett, token |-> token, calls |-> calls]

\* What the settings table can do during a refresh: work, fail the select
\* of load_token_metadata, fail the upsert of save_token_metadata.
DbOutcomes == {"ok", "load_fail", "save_fail"}

\* metadata = load_token_metadata(); metadata["threads_last_refresh"] = now;
\* save_token_metadata(metadata).  Both catch their exceptions: a failed
\* load gives {} and the key is still written, a failed save writes nothing.
Persist(sett, t, db) ==
  IF db = "save_fail" THEN sett ELSE [sett EXCEPT !.threads_last_refresh = t]

\* Refresh routines of Threads that differ from the code's: one that does
\* not persist last_refresh, one in which a failure of the settings table
\* undoes the refresh.
RefreshThreadsTokenUnsaved(td, sett, t, resp, db) ==
  LET call == Call("th_refresh", 0, td.access_token, PyNone)
  IN IF td.last_refresh # NoTime /\ t - td.last_refresh < td.expires_in - RefreshMargin
     THEN Refreshed(td, sett, td.access_token, <<>>)
     ELSE IF resp.kind = "ok"
          THEN Refreshed(TokenData(resp.token, t, resp.expires_in), sett, resp.token, <<call>>)
     ELSE Refreshed(td, sett, td.access_token, <<call>>)
RefreshThreadsTokenStrict(td, sett, t, resp, db) ==
  LET call == Call("th_refresh", 0, td.access_token, PyNone)
      load == Call("settings_select", 0, -1, PyNone)
      save == Call("settings_upsert", 0, -1, PyNum(t))
  IN IF td.last_refresh # NoTime /\ t - td.last_refresh < td.expires_in - RefreshMargin
     THEN Refreshed(td, sett, td.access_token, <<>>)
     ELSE IF resp.kind = "ok" /\ db = "ok"
          THEN Refreshed(TokenData(resp.token, t, resp.expires_in),
                         [sett EXCEPT !.threads_last_refresh = t],
                         resp.token, <<call, load, save>>)
     ELSE Refreshed(td, sett, td.access_token, <<call>>)

\* refresh_threads_token() that gives no token when the refresh fails
RefreshThreadsTokenNoFallback(td, sett, t, resp, db) ==
  LET call == Call("th_refresh", 0, td.access_token, PyNone)
      load == Call("settings_select", 0, -1, PyNone)
      save == Call("settings_upsert", 0, -1, PyNum(t))
  IN IF td.last_refresh # NoTime /\ t - td.last_refresh < td.expires_in - RefreshMargin
     THEN Refreshed(td, sett, td.access_token, <<>>)
     ELSE IF resp.kind = "ok"
          THEN Refreshed(TokenData(resp.token, t, resp.expires_in), Persist(sett, t, db),
                         resp.token, <<call, load, save>>)
     ELSE Refreshed(td, sett, -1, <<call>>)

\* refresh_threads_token() without its freshness test
RefreshThreadsTokenAlways(td, sett, t, resp, db) ==
  LET call == Call("th_refresh", 0, td.access_token, PyNone)
      load == Call("settings_select", 0, -1, PyNone)
      save == Call("settings_upsert", 0, -1, PyNum(t))
  IN IF resp.kind = "ok"
     THEN Refreshed(TokenData(resp.token, t, resp.expires_in),
                    Persist(sett, t, db),
                    resp.token, <<call, load, save>>)
     ELSE Refreshed(td, sett, td.access_token, <<call>>)

\* refresh_threads_token() at time t; resp is the endpoint's answer, db
\* what the settings table does
RefreshThreadsToken(td, sett, t, resp, db) ==
  LET call == Call("th_refresh", 0, td.access_token, PyNone)
      load == Call("settings_select", 0, -1, PyNone)
      save == Call("settings_upsert", 0, -1, PyNum(t))
  IN IF ThreadsTokenFresh(td, t) THEN Refreshed(td, sett, td.access_token, <<>>)
     ELSE IF resp.kind = "ok"
          THEN Refreshed(TokenData(resp.token, t, resp.expires_in),
                         Persist(sett, t, db),
                         resp.token, <<call, load, save>>)
     ELSE Refreshed(td, sett, td.access_token, <<call>>)

\* A refresh routine of Instagram that takes the new token and leaves the
\* refresh time and the validity as they were.
RefreshInstagramTokenPartial(td, sett, t, resp, app) ==
  IF ~app THEN Refreshed(td, sett, td.access_token, <<>>)
  ELSE IF InstagramTokenFresh(td, t) THEN Refreshed(td, sett, td.access_token, <<>>)
  ELSE IF resp.kind = "ok"
       THEN Refreshed([td EXCEPT !.access_token = resp.token], sett, resp.token,
                      <<Call("ig_refresh", 0, td.access_token, PyNone)>>)
  ELSE Refreshed(td, sett, td.access_token,
                 <<Call("ig_refresh", 0, td.access_token, PyNone)>>)

\* A refresh routine of Instagram without the test of the app id and secret.
RefreshInstagramTokenUngated(td, sett, t, resp, app) ==
  IF InstagramTokenFresh(td, t) THEN Refreshed(td, sett, td.access_token, <<>>)
  ELSE IF resp.kind = "ok"
       THEN Refreshed(TokenData(resp.token, t, resp.expires_in), sett, resp.token,
                      <<Call("ig_refresh", 0, td.access_token, PyNone)>>)
  ELSE Refreshed(td, sett, td.access_token,
                 <<Call("ig_refresh", 0, td.access_token, PyNone)>>)

\* refresh_instagram_token() at time t; app = IG_APP_ID and IG_APP_SECRET set
RefreshInstagramToken(td, sett, t, resp, app) ==
  LET call == Call("ig_refresh", 0, td.access_token, PyNone) IN
  IF ~app THEN Refreshed(td, sett, td.access_token, <<>>)
  ELSE IF InstagramTokenFresh(td, t) THEN Refreshed(td, sett, td.access_token, <<>>)
  ELSE IF resp.kind = "ok"
       THEN Refreshed(TokenData(resp.token, t, resp.expires_in), sett, resp.token, <<call>>)
  ELSE Refreshed(td, sett, td.access_token, <<call>>)

\* ------------------------------------------------------------------- state
VARIABLES
  configured,            \* wordpress_configured .. instagram_configured
  ig_app,                \* instagram_app_id and instagram_app_secret are set
  store,                 \* the article table: id -> row
  settings,              \* the app_settings table
  threads_token_data,
  instagram_token_data,
  now,                   \* datetime.now(), in seconds
  ticks,                 \* how often the clock has advanced
  pc,                    \* where the handler of the current request is
  platform,              \* the platform of the current request
  items,                 \* request.items
  idx,                   \* iterations of the item loop completed
  results,               \* results
  news_item,             \* the local news_item
  current_token,         \* the local current_token (-1 where there is none)
  calls,                 \* the external calls of the handler's latest step
  status,                \* the HTTP status of the response, 0 before it
  report,                \* the returned dict: total, success, failed
  handlers,              \* the handler coroutines of the requests in the process
  running,               \* the coroutine the event loop is running, 0 for none
  refreshes,             \* the refreshes the endpoints have granted so far
  metadata               \* the local metadata of refresh_threads_token

vars == <<configured, ig_app, store, settings, threads_token_data, instagram_token_data,
          now, ticks, pc, platform, items, idx, results, news_item, current_token,
          calls, status, report, handlers, running, refreshes, metadata>>

process == <<configured, ig_app, store, settings, threads_token_data, instagram_token_data>>
request == <<pc, platform, items, idx, results, news_item, current_token, calls, status, report>>
coroutines == <<handlers, running, refreshes, metadata>>

\* the handler coroutines a process can have at once
MaxHandlers == 2
Handlers == 1..MaxHandlers

\* a coroutine slot without a request
NoHandler == [pc |-> "idle", platform |-> "threads", token |-> -1, sent |-> -1, floor |-> -1]

NoReport == [total |-> -1, success |-> -1, failed |-> -1]

AllConfigured == [p \in Platforms |-> TRUE]

\* what the handler's locals and the response are before the first request
InitRequest ==
  /\ pc = "idle"
  /\ platform = "wordpress"
  /\ items = <<>>
  /\ idx = 0
  /\ results = <<>>
  /\ news_item = Unbound
  /\ current_token = -1
  /\ calls = <<>>
  /\ status = 0
  /\ report = NoReport
  /\ handlers = [h \in Handlers |-> NoHandler]
  /\ running = 0
  /\ refreshes = {}
  /\ metadata = Unbound

\* the module-level token dictionaries: last_refresh of Threads is read
\* back from app_settings, that of Instagram starts as None
InitTokens ==
  /\ threads_token_data = TokenData(0, settings.threads_last_refresh, DefaultTTL)
  /\ instagram_token_data = TokenData(0, NoTime, DefaultTTL)

\* The state after the module has been imported: either every platform is
\* configured and article 2 is any of ArticleShapes, or no platform is
\* configured.  Instagram has no app id, and now = 0.
Init ==
  /\ \/ /\ configured = AllConfigured
        /\ store \in [ArticleIds -> {GoodArticle} \cup ArticleShapes]
        /\ store[1] = GoodArticle
        /\ store[2] \in ArticleShapes
        /\ settings = [threads_last_refresh |-> 0]
     \/ /\ configured = [p \in Platforms |-> FALSE]
        /\ store = [i \in ArticleIds |-> GoodArticle]
        /\ settings \in {[threads_last_refresh |-> v] : v \in {NoTime, 0}}
  /\ ig_app = FALSE
  /\ InitTokens
  /\ now = 0
  /\ ticks = 0
  /\ InitRequest

\* The state after import with the token platforms in every state they can
\* start in; the article table holds the one good article.
InitToken ==
  /\ configured = AllConfigured
  /\ ig_app \in BOOLEAN
  /\ store = [i \in {1} |-> GoodArticle]
  /\ settings \in {[threads_last_refresh |-> v] : v \in {NoTime, 0}}
  /\ InitTokens
  /\ now = 0
  /\ ticks = 0
  /\ InitRequest

\* ----------------------------------------------------------------- actions
\* the checks without "if not ..._configured: raise HTTPException(503)"
GateEmptyOnly(conf, its) ==
  IF its = <<>> THEN 400 ELSE 0

\* The checks every handler starts with: 503 when the platform is not
\* configured, 400 when the item list is empty, 0 when the batch starts.
BatchGate(conf, its) ==
  IF ~conf THEN 503 ELSE IF its = <<>> THEN 400 ELSE 0

\* current_token = refresh_..._token() of the two token platforms
RefreshFor(p, resp, db) ==
  CASE p = "threads" -> RefreshThreadsToken(threads_token_data, settings, now, resp, db)
    [] p = "instagram" -> RefreshInstagramToken(instagram_token_data, settings, now, resp, ig_app)
    [] OTHER -> Refreshed(PyNone, settings, -1, <<>>)

TokenDataOf(p) == IF p = "threads" THEN threads_token_data ELSE instagram_token_data

Responded == {"returned", "refused", "raised"}

\* A request arrives: the handler runs up to its item loop.
StartBatch(p, its) ==
  /\ pc = "idle"
  /\ platform' = p
  /\ items' = its
  /\ idx' = 0
  /\ results' = <<>>
  /\ news_item' = Unbound
  /\ report' = NoReport
  /\ status' = BatchGate(configured[p], its)
  /\ UNCHANGED <<configured, ig_app, store, now, ticks, handlers, running, refreshes, metadata>>
  /\ IF BatchGate(configured[p], its) # 0
     THEN /\ pc' = "refused"
          /\ current_token' = -1
          /\ calls' = <<>>
          /\ UNCHANGED <<settings, threads_token_data, instagram_token_data>>
     ELSE /\ pc' = "loop"
          /\ \E resp \in RefreshOutcomes(TokenDataOf(p)), db \in DbOutcomes :
               LET r == RefreshFor(p, resp, db) IN
               /\ current_token' = r.token
               /\ calls' = r.calls
               /\ settings' = r.settings
               /\ threads_token_data' = IF p = "threads" THEN r.td ELSE threads_token_data
               /\ instagram_token_data' = IF p = "instagram" THEN r.td ELSE instagram_token_data

\* Collections that differ from the code's: one that keeps the successes
\* only, one that puts the newest record first.
CollectSuccesses(res, step) ==
  IF step.result.success THEN Append(res, step.result) ELSE res
CollectInFront(res, step) == <<step.result>> \o res

\* results.append(...) at the end of an iteration
Collect(res, step) == Append(res, step.result)

\* what an iteration that ended as step leaves in the handler
Advance(step) ==
  /\ calls' = step.calls
  /\ news_item' = step.row
  /\ IF step.raised
     THEN /\ pc' = "raised"
          /\ status' = 500
          /\ UNCHANGED <<idx, results>>
     ELSE /\ results' = Collect(results, step)
          /\ idx' = idx + 1
          /\ UNCHANGED <<pc, status>>

\* A loop that runs the freshness check of the platform in every iteration.
ProcessItemRefreshing(envs) ==
  /\ pc = "loop"
  /\ idx < Len(items)
  /\ \E env \in envs, resp \in RefreshOutcomes(TokenDataOf(platform)), db \in DbOutcomes :
       /\ current_token' = RefreshFor(platform, resp, db).token
       /\ settings' = RefreshFor(platform, resp, db).settings
       /\ threads_token_data' = IF platform = "threads"
                                THEN RefreshFor(platform, resp, db).td
                                ELSE threads_token_data
       /\ instagram_token_data' = IF platform = "instagram"
                                  THEN RefreshFor(platform, resp, db).td
                                  ELSE instagram_token_data
       /\ Advance([ItemStep(platform, items[idx + 1], idx + 1, store, env, news_item,
                            RefreshFor(platform, resp, db).token)
                     EXCEPT !.calls = RefreshFor(platform, resp, db).calls \o @])
  /\ UNCHANGED <<configured, ig_app, store, now, ticks, platform, items, report,
                 handlers, running, refreshes, metadata>>

\* A loop that takes the items from the end of the list.
ProcessItemLastFirst(envs) ==
  /\ pc = "loop"
  /\ idx < Len(items)
  /\ \E env \in envs :
       Advance(ItemStep(platform, items[Len(items) - idx], Len(items) - idx, store, env,
                        news_item, current_token))
  /\ UNCHANGED <<configured, ig_app, store, settings, threads_token_data,
                 instagram_token_data, now, ticks, platform, items, current_token, report,
                 handlers, running, refreshes, metadata>>

\* One iteration of the item loop, with the answers env of the outside.
ProcessItem(envs) ==
  /\ pc = "loop"
  /\ idx < Len(items)
  /\ \E env \in envs :
       Advance(ItemStep(platform, items[idx + 1], idx + 1, store, env, news_item,
                        current_token))
  /\ UNCHANGED <<configured, ig_app, store, settings, threads_token_data,
                 instagram_token_data, now, ticks, platform, items, current_token, report,
                 handlers, running, refreshes, metadata>>

\* success_count, fail_count and the returned dict
MakeReport(res) ==
  LET ok == Cardinality({i \in 1..Len(res) : res[i].success}) IN
  [total |-> Len(res), success |-> ok, failed |-> Len(res) - ok]

\* The loop is over: the handler returns the report.
ReturnReport ==
  /\ pc = "loop"
  /\ idx = Len(items)
  /\ pc' = "returned"
  /\ status' = 200
  /\ report' = MakeReport(results)
  /\ calls' = <<>>
  /\ UNCHANGED <<configured, ig_app, store, settings, threads_token_data,
                 instagram_token_data, now, ticks, platform, items, idx, results,
                 news_item, current_token, handlers, running, refreshes, metadata>>

\* The response has been sent: the process waits for the next request.
Finish ==
  /\ pc \in Responded
  /\ pc' = "idle"
  /\ platform' = "wordpress"
  /\ items' = <<>>
  /\ idx' = 0
  /\ results' = <<>>
  /\ news_item' = Unbound
  /\ current_token' = -1
  /\ calls' = <<>>
  /\ status' = 0
  /\ report' = NoReport
  /\ UNCHANGED <<configured, ig_app, store, settings, threads_token_data,
                 instagram_token_data, now, ticks, handlers, running, refreshes, metadata>>

\* Time passes: ten seconds, or up to the second before or the second of
\* the refresh threshold of the default validity window.
TickSteps == {10, DefaultTTL - RefreshMargin - 1, DefaultTTL - RefreshMargin}
Tick ==
  /\ ticks < MaxTicks
  /\ \E d \in TickSteps : now' = now + d
  /\ ticks' = ticks + 1
  /\ UNCHANGED <<configured, ig_app, store, settings, threads_token_data,
                 instagram_token_data, pc, platform, items, idx, results, news_item,
                 current_token, calls, status, report, handlers, running, refreshes, metadata>>

\* the item lists of the requests to a token platform
TokenItemLists == UNION {[1..n -> {PublishItem(1, PyNone)}] : n \in 0..MaxTokenItems}

\* A request for any platform arrives at the idle process.
Submit ==
  /\ pc = "idle"
  /\ \E p \in Platforms : \E its \in ItemLists(p) : StartBatch(p, its)

\* A request for Instagram or Threads arrives at the idle process.
SubmitToken ==
  /\ pc = "idle"
  /\ \E p \in TokenPlatforms : \E its \in TokenItemLists : StartBatch(p, its)

Next ==
  \/ Submit
  \/ ProcessItem(ItemEnvs(platform))
  \/ ReturnReport
  \/ Finish

Spec == Init /\ [][Next]_vars

NextToken ==
  \/ SubmitToken
  \/ ProcessItem(TokenItemEnvs)
  \/ ReturnReport
  \/ Finish
  \/ Tick

SpecToken == InitToken /\ [][NextToken]_vars

\* ------------------------------------------------------------- long texts
\* how far beyond a limit the composed text of the stored article reaches
MaxOver == 2

\* n times the character c
Chars(c, n) == [i \in 1..n |-> c]

\* an article with a title of one character and a content of n
LongArticle(n, url) ==
  Article(url, Str("T"), PyStr(Chars("c", n)), PyNone, PyNone, JsonUrlList)

\* The state after import when the article table holds one article whose
\* composed text is around one of the two limits, with or without a url.
InitText ==
  /\ configured = AllConfigured
  /\ ig_app = FALSE
  /\ \E lim \in {ThreadsLimit, InstagramLimit} :
       \E n \in (lim - 8 - MaxOver)..(lim - 3 + MaxOver), url \in {EmptyStr, Str("u")} :
         store = [i \in {1} |-> LongArticle(n, url)]
  /\ settings = [threads_last_refresh |-> 0]
  /\ InitTokens
  /\ now = 0
  /\ ticks = 0
  /\ InitRequest

NextText ==
  \/ SubmitToken
  \/ ProcessItem(TokenItemEnvs)
  \/ ReturnReport
  \/ Finish

SpecText == InitText /\ [][NextText]_vars

\* ------------------------------------------------------- the images column
\* The structured values an images column can hold: arrays and objects of
\* urls, empty ones, an object without url, an array of objects.
ImageValues ==
  { NativeUrlList,
    NativeUrlObject,
    PyList(<<Str("i1")>>),
    PyList(<<>>),
    PyDict(<<>>, <<>>),
    PyDict(<<(<<"src">>)>>, <<Str("i1")>>),
    PyDict(<<(<<"url">>)>>, <<PyNone>>),
    PyDict(<<(<<"alt">>), (<<"url">>)>>, <<PyStr(<<"a", " ", "b">>), Str("i1")>>),
    PyList(<<NativeUrlObject, Str("i2")>>),
    PyList(<<PyNone, Str("i1")>>),
    PyList(<<EmptyStr, Str("i1")>>),
    PyList(<<PyList(<<Str("i1")>>)>>) }

\* The state after import when article 1 holds a structured images value
\* and article 2 the JSON text of the same value.
InitImage ==
  /\ configured = AllConfigured
  /\ ig_app = FALSE
  /\ \E v \in ImageValues :
       store = [i \in ArticleIds |->
                  Article(Str("u1"), Str("T"), Str("C"), PyNone, PyNone,
                          IF i = 1 THEN v ELSE PyStr(JsonDumps(v)))]
  /\ settings = [threads_last_refresh |-> 0]
  /\ InitTokens
  /\ now = 0
  /\ ticks = 0
  /\ InitRequest

\* the requests for one article, with and without a selected image
ImageItemLists ==
  [1..1 -> {PublishItem(id, sel) : id \in ArticleIds, sel \in {PyNone, Str("s1")}}]

\* A request for a platform that publishes one image arrives.
SubmitImage ==
  /\ pc = "idle"
  /\ \E p \in ImagePlatforms \cup {"wordpress"} : \E its \in ImageItemLists : StartBatch(p, its)

NextImage ==
  \/ SubmitImage
  \/ ProcessItem(ItemEnvs(platform))
  \/ ReturnReport
  \/ Finish

SpecImage == InitImage /\ [][NextImage]_vars

\* -------------------------------------------------------- the rewrite path
\* One entry of request.news_items: a dict with url, title_translated and
\* content_translated.
NewsItem(url, title) ==
  [url |-> url, title_translated |-> title, content_translated |-> Str("C")]

\* The entries a request is made of: the urls of stored articles, a url no
\* article has, an absent and an empty url, and an entry whose title is null.
NewsItems ==
  {NewsItem(u, Str("T")) : u \in {Str("u1"), Str("u2"), Str("u9"), PyNone, EmptyStr}}
  \cup {NewsItem(Str("u1"), PyNone)}
NewsItemLists == UNION {[1..n -> NewsItems] : n \in 0..MaxItems}

\* request.system_prompts: none, one with name and prompt, one without prompt
GoodPrompt == PyDict(<<(<<"name">>), (<<"prompt">>)>>, <<Str("n"), Str("p")>>)
BadPrompt == PyDict(<<(<<"name">>)>>, <<Str("n")>>)
PromptLists == {<<>>, <<GoodPrompt>>, <<BadPrompt>>}

\* The start of ai_rewrite_news: 503 without the OpenAI client, 400 without
\* items, 400 without prompts, 500 when prompt["prompt"] raises KeyError,
\* 0 when the loop starts.
RewriteGate(client, its, prompts) ==
  IF ~client THEN 503
  ELSE IF its = <<>> THEN 400
  ELSE IF prompts = <<>> THEN 400
  ELSE IF \E i \in 1..Len(prompts) : DictGet(prompts[i], <<"prompt">>) = PyNone THEN 500
  ELSE 0

\* AIRewriteResult
AIRewriteResult(url, title_modified, content_modified, success, error) ==
  [url |-> url, title_modified |-> title_modified, content_modified |-> content_modified,
   success |-> success, error |-> error]

\* The JSON values a completion can consist of, and what the completion call
\* can give: an exception, a message without content, a text that is the
\* JSON of one of the values, that JSON cut short, or words that are no JSON.
TitleKey == <<"title_modified">>
ContentKey == <<"content_modified">>
Rewritten(a, b) == PyDict(<<TitleKey, ContentKey>>, <<a, b>>)
CompletionValues ==
  { Rewritten(Str("A"), Str("B")),
    Rewritten(Str("A2"), Str("B2")),
    Rewritten(Str("A"), EmptyStr),
    Rewritten(PyNone, Str("B")),
    PyDict(<<TitleKey>>, <<Str("A")>>),
    PyList(<<Str("A"), Str("B")>>),
    PyNone }
CutShort(tx) == SubSeq(tx, 1, Len(tx) - 1)
Completion(kind, text) == [kind |-> kind, text |-> text]
CompletionOutcomes ==
  {Completion("exc", <<>>), Completion("none", <<>>)}
  \cup {Completion("text", JsonDumps(v)) : v \in CompletionValues}
  \cup {Completion("text", CutShort(JsonDumps(Rewritten(Str("A"), Str("B"))))),
        Completion("text", <<"sorry">>)}

\* what the update of the store can do: execute, or raise
UpdateOutcomes == {"ok", "exc"}

\* the articles .eq("url", url) selects
Matching(st, url) == {i \in DOMAIN st : st[i].url = url}

\* an update without its .eq("url", url)
UpdateEveryArticle(st, url, a, b) ==
  [i \in DOMAIN st |-> [st[i] EXCEPT !.title_modified = a, !.content_modified = b]]

\* an update that sets the title only
UpdateTitleByUrl(st, url, a, b) ==
  [i \in DOMAIN st |-> IF st[i].url = url THEN [st[i] EXCEPT !.title_modified = a] ELSE st[i]]

\* an update that overwrites the translated fields as well
UpdateTranslatedByUrl(st, url, a, b) ==
  [i \in DOMAIN st |->
     IF st[i].url = url
     THEN [st[i] EXCEPT !.title_modified = a, !.content_modified = b,
                        !.title_translated = a, !.content_translated = b]
     ELSE st[i]]

\* .update({"title_modified": ..., "content_modified": ...}).eq("url", url)
UpdateByUrl(st, url, a, b) ==
  [i \in DOMAIN st |->
     IF st[i].url = url
     THEN [st[i] EXCEPT !.title_modified = a, !.content_modified = b]
     ELSE st[i]]

\* what the try block of one rewrite item ends with
Rewrote(err, a, b, cs, st) ==
  [err |-> err, title_modified |-> a, content_modified |-> b, calls |-> cs, store |-> st]

\* The try block from the two fields on, with the update issued before the
\* fields are checked.
WrittenUnchecked(it, k, st, a, b, upd, ask) ==
  LET write == Call("store_update", k, -1, it.url) IN
  IF upd = "exc" THEN Rewrote("exception", a, b, <<ask, write>>, st)
  ELSE IF ~Truthy(a) \/ ~Truthy(b)
       THEN Rewrote("incomplete", a, b, <<ask, write>>, UpdateByUrl(st, it.url, a, b))
  ELSE IF Matching(st, it.url) = {} THEN Rewrote("update_failed", a, b, <<ask, write>>, st)
  ELSE Rewrote("", a, b, <<ask, write>>, UpdateByUrl(st, it.url, a, b))

\* The try block from the two fields on: the check of the fields, the
\* update by url, the check of update_response.data.
Written(it, k, st, a, b, upd, ask) ==
  LET write == Call("store_update", k, -1, it.url) IN
  IF ~Truthy(a) \/ ~Truthy(b) THEN Rewrote("incomplete", a, b, <<ask>>, st)
  ELSE IF upd = "exc" THEN Rewrote("exception", a, b, <<ask, write>>, st)
  ELSE IF Matching(st, it.url) = {} THEN Rewrote("update_failed", a, b, <<ask, write>>, st)
  ELSE Rewrote("", a, b, <<ask, write>>, UpdateByUrl(st, it.url, a, b))

\* json.loads(result_text) of a completion
Parsed(c) == IF c.kind = "text" THEN JsonLoads(c.text) ELSE [ok |-> FALSE, v |-> PyNone]

\* The try block of one rewrite item: title[:50] and len(content) raise for
\* a title or content that is no str, then the completion call, json.loads
\* and result_json.get.
RewriteTry(it, k, st, c, parsed, upd) ==
  LET ask == Call("completion", k, -1, it.url) IN
  IF it.title_translated.t # "str" \/ it.content_translated.t # "str"
  THEN Rewrote("exception", PyNone, PyNone, <<>>, st)
  ELSE IF c.kind \in {"exc", "none"} THEN Rewrote("exception", PyNone, PyNone, <<ask>>, st)
  ELSE IF ~parsed.ok THEN Rewrote("json_decode", PyNone, PyNone, <<ask>>, st)
  ELSE IF parsed.v.t # "dict" THEN Rewrote("exception", PyNone, PyNone, <<ask>>, st)
  ELSE Written(it, k, st, DictGet(parsed.v, TitleKey), DictGet(parsed.v, ContentKey), upd, ask)

\* the end of an iteration in which every failure ends the handler
RewriteOutcomeRaising(it, tr) ==
  [raised |-> tr.err # "", item |-> it, calls |-> tr.calls, store |-> tr.store,
   result |-> AIRewriteResult(it.url, tr.title_modified, tr.content_modified, tr.err = "", tr.err)]

\* The end of an iteration whose try block ended as tr: the success record
\* or the record of an except block.  url: str of AIRewriteResult refuses a
\* url that is no str, in the try block and again in the except block.
RewriteOutcome(it, tr) ==
  [raised |-> ~ValidUrl(it.url), item |-> it, calls |-> tr.calls, store |-> tr.store,
   result |-> IF tr.err = ""
              THEN AIRewriteResult(it.url, tr.title_modified, tr.content_modified, TRUE, "")
              ELSE AIRewriteResult(it.url, EmptyStr, EmptyStr, FALSE, tr.err)]

\* One iteration of the loop of ai_rewrite_news: "if not url" appends its
\* record and continues, anything else goes through the try block.
RewriteStep(it, k, st, c, upd) ==
  IF ~Truthy(it.url)
  THEN [raised |-> FALSE, item |-> it, calls |-> <<>>, store |-> st,
        result |-> AIRewriteResult(EmptyStr, EmptyStr, EmptyStr, FALSE, "missing_url")]
  ELSE RewriteOutcome(it, RewriteTry(it, k, st, c, Parsed(c), upd))

\* The state after import when the article table holds two articles that
\* share a url or not; the OpenAI client exists or not.
InitRewrite ==
  /\ \E client \in BOOLEAN :
       configured = [p \in Platforms \cup {"rewrite"} |-> IF p = "rewrite" THEN client ELSE TRUE]
  /\ ig_app = FALSE
  /\ \E second \in {Article(Str("u1"), Str("T"), Str("C"), PyNone, PyNone, PyNone),
                     Article(Str("u2"), Str("T"), Str("C"), Str("M"), Str("N"), NativeUrlList)} :
       store = [i \in ArticleIds |-> IF i = 1 THEN GoodArticle ELSE second]
  /\ settings = [threads_last_refresh |-> 0]
  /\ InitTokens
  /\ now = 0
  /\ ticks = 0
  /\ InitRequest

\* A rewrite request arrives: the handler runs up to its item loop.
SubmitRewrite ==
  /\ pc = "idle"
  /\ \E its \in NewsItemLists, prompts \in PromptLists :
       /\ items' = its
       /\ status' = RewriteGate(configured["rewrite"], its, prompts)
       /\ pc' = CASE RewriteGate(configured["rewrite"], its, prompts) = 0 -> "loop"
                   [] RewriteGate(configured["rewrite"], its, prompts) = 500 -> "raised"
                   [] OTHER -> "refused"
  /\ platform' = "rewrite"
  /\ idx' = 0
  /\ results' = <<>>
  /\ news_item' = Unbound
  /\ report' = NoReport
  /\ current_token' = -1
  /\ calls' = <<>>
  /\ UNCHANGED <<process, now, ticks, coroutines>>

\* what an iteration that ended as step leaves in the handler and the store
AdvanceRewrite(step) ==
  /\ calls' = step.calls
  /\ news_item' = step.item
  /\ store' = step.store
  /\ IF step.raised
     THEN /\ pc' = "raised"
          /\ status' = 500
          /\ UNCHANGED <<idx, results>>
     ELSE /\ results' = Append(results, step.result)
          /\ idx' = idx + 1
          /\ UNCHANGED <<pc, status>>

\* One iteration of the loop over request.news_items.
RewriteItem ==
  /\ pc = "loop"
  /\ platform = "rewrite"
  /\ idx < Len(items)
  /\ \E c \in CompletionOutcomes, upd \in UpdateOutcomes :
       AdvanceRewrite(RewriteStep(items[idx + 1], idx + 1, store, c, upd))
  /\ UNCHANGED <<configured, ig_app, settings, threads_token_data, instagram_token_data,
                 now, ticks, platform, items, current_token, report, coroutines>>

NextRewrite ==
  \/ SubmitRewrite
  \/ RewriteItem
  \/ ReturnReport
  \/ Finish

SpecRewrite == InitRewrite /\ [][NextRewrite]_vars

\* ------------------------------------------- publishing and rewriting
\* the requests that name one article
ShortItemLists(p) == [1..1 -> ItemChoices(p)]

\* A request for any platform that names one article arrives.
SubmitOne ==
  /\ pc = "idle"
  /\ \E p \in Platforms : \E its \in ShortItemLists(p) : StartBatch(p, its)

\* One iteration of the item loop of a publish handler.
PublishItemStep ==
  /\ platform \in Platforms
  /\ ProcessItem(ItemEnvs(platform))

\* The process serves publish requests and rewrite requests, one after
\* another, on the same article table.
NextStore ==
  \/ SubmitOne
  \/ PublishItemStep
  \/ SubmitRewrite
  \/ RewriteItem
  \/ ReturnReport
  \/ Finish

SpecStore == InitRewrite /\ [][NextStore]_vars

\* ------------------------------------------------------------------ restarts
\* What load_token_metadata() gives at import: the settings table, or {}
\* when the select fails.
ImportOutcomes == {"ok", "load_fail"}

\* parse_stored_time(stored_metadata.get("threads_last_refresh"))
StoredRefresh(sett, db) == IF db = "load_fail" THEN NoTime ELSE sett.threads_last_refresh

\* An import that also takes the Instagram refresh time from the settings.
ImportedInstagramStored(sett, db) == TokenData(0, StoredRefresh(sett, db), DefaultTTL)

\* threads_token_data and instagram_token_data as the import builds them:
\* the token of the environment, the default validity, and for Threads the
\* refresh time found in the settings
ImportedThreads(sett, db) == TokenData(0, StoredRefresh(sett, db), DefaultTTL)
ImportedInstagram(sett, db) == TokenData(0, NoTime, DefaultTTL)

\* The process is stopped and started again: the module is imported anew.
\* The tables keep what they hold; the request being served is lost.
Restart ==
  /\ \E db \in ImportOutcomes :
       /\ threads_token_data' = ImportedThreads(settings, db)
       /\ instagram_token_data' = ImportedInstagram(settings, db)
  /\ pc' = "idle"
  /\ platform' = "wordpress"
  /\ items' = <<>>
  /\ idx' = 0
  /\ results' = <<>>
  /\ news_item' = Unbound
  /\ current_token' = -1
  /\ calls' = <<>>
  /\ status' = 0
  /\ report' = NoReport
  /\ UNCHANGED <<configured, ig_app, store, settings, now, ticks, handlers, running,
                 refreshes, metadata>>

NextRestart ==
  \/ SubmitToken
  \/ ProcessItem(TokenItemEnvs)
  \/ ReturnReport
  \/ Finish
  \/ Tick
  \/ Restart

SpecRestart == InitToken /\ [][NextRestart]_vars

\* ------------------------------------------------ batches that must end
\* The state after import when every handler can run: the images of the
\* articles are stored as lists, and article 2 shares the url of article 1
\* or has no url.
InitLive ==
  /\ configured = [p \in Platforms \cup {"rewrite"} |-> TRUE]
  /\ ig_app = FALSE
  /\ \E second \in {Article(Str("u1"), Str("T"), Str("C"), PyNone, PyNone, PyNone),
                     Article(PyNone, Str("T"), Str("C"), PyNone, PyNone, NativeUrlList)} :
       store = [i \in ArticleIds |->
                  IF i = 1
                  THEN Article(Str("u1"), Str("T"), Str("C"), PyNone, PyNone, NativeUrlList)
                  ELSE second]
  /\ settings = [threads_last_refresh |-> 0]
  /\ InitTokens
  /\ now = 0
  /\ ticks = 0
  /\ InitRequest

\* A request for Threads arrives at the idle process.
SubmitThreads ==
  /\ pc = "idle"
  /\ \E its \in ItemLists("threads") : StartBatch("threads", its)

NextLive ==
  \/ SubmitThreads
  \/ SubmitRewrite
  \/ PublishItemStep
  \/ RewriteItem
  \/ ReturnReport
  \/ Finish

\* Every call to the outside returns or times out, and nothing in a
\* handler waits for another request: an iteration that can be taken is
\* taken, and so is the return behind the loop.
SpecLive ==
  /\ InitLive
  /\ [][NextLive]_vars
  /\ WF_vars(PublishItemStep)
  /\ WF_vars(RewriteItem)
  /\ WF_vars(ReturnReport)

\* ------------------------------------- the settings table and its writers
\* The write-back of refresh_threads_token step by step: the select of
\* load_token_metadata and the upserts of save_token_metadata are separate
\* calls to the database, and other writers of app_settings can act between
\* them.  The table holds threads_last_refresh and one other key.
MaxWrites == 2

\* an empty dict
EmptyDict == [k \in {} |-> 0]

\* load_token_metadata(): one entry per row of the table, {} when the
\* select fails.  A key whose value is NoTime has no row.
LoadTokenMetadata(table, db) ==
  IF db = "load_fail" THEN EmptyDict
  ELSE [k \in {x \in DOMAIN table : table[x] # NoTime} |-> table[k]]

\* metadata[key] = value
SetItem(md, key, value) ==
  [k \in DOMAIN md \cup {key} |-> IF k = key THEN value ELSE md[k]]

\* save_token_metadata(metadata): an upsert for every key of metadata;
\* nothing is written when the upsert fails.
SaveTokenMetadata(table, md, db) ==
  IF db = "save_fail" THEN table
  ELSE [k \in DOMAIN table \cup DOMAIN md |-> IF k \in DOMAIN md THEN md[k] ELSE table[k]]

\* the state after import with a second key in app_settings
InitSettings ==
  /\ configured = AllConfigured
  /\ ig_app = FALSE
  /\ store = [i \in {1} |-> GoodArticle]
  /\ settings \in {[threads_last_refresh |-> v, other_key |-> 0] : v \in {NoTime, 0}}
  /\ InitTokens
  /\ now = 0
  /\ ticks = 0
  /\ InitRequest

\* refresh_threads_token() up to the assignment of the token data: a fresh
\* token is returned as it is; otherwise the endpoint is called, and a 200
\* with a token is taken over and the routine goes on to the write-back.
RefreshCall ==
  /\ pc = "idle"
  /\ ~ThreadsTokenFresh(threads_token_data, now)
  /\ \E resp \in RefreshOutcomes(threads_token_data) :
       /\ calls' = <<Call("th_refresh", 0, threads_token_data.access_token, PyNone)>>
       /\ IF resp.kind = "ok"
          THEN /\ threads_token_data' = TokenData(resp.token, now, resp.expires_in)
               /\ current_token' = resp.token
               /\ pc' = "load"
          ELSE /\ current_token' = threads_token_data.access_token
               /\ UNCHANGED <<threads_token_data, pc>>
  /\ UNCHANGED <<configured, ig_app, store, settings, instagram_token_data, now, ticks,
                 platform, items, idx, results, news_item, status, report, handlers,
                 running, refreshes, metadata>>

\* metadata = load_token_metadata()
\* metadata["threads_last_refresh"] = datetime.now().isoformat()
LoadMetadata ==
  /\ pc = "load"
  /\ \E db \in {"ok", "load_fail"} :
       metadata' = SetItem(LoadTokenMetadata(settings, db), "threads_last_refresh", now)
  /\ pc' = "save"
  /\ UNCHANGED <<configured, ig_app, store, settings, threads_token_data,
                 instagram_token_data, now, ticks, platform, items, idx, results,
                 news_item, current_token, calls, status, report, handlers, running,
                 refreshes>>

\* save_token_metadata(metadata); return new_token
SaveMetadata ==
  /\ pc = "save"
  /\ \E db \in {"ok", "save_fail"} :
       settings' = SaveTokenMetadata(settings, metadata, db)
  /\ metadata' = Unbound
  /\ pc' = "idle"
  /\ UNCHANGED <<configured, ig_app, store, threads_token_data, instagram_token_data,
                 now, ticks, platform, items, idx, results, news_item, current_token,
                 calls, status, report, handlers, running, refreshes>>

\* Another writer of app_settings (another process, another request) gives
\* the other key its next value.
OtherWriter ==
  /\ settings.other_key < MaxWrites
  /\ settings' = [settings EXCEPT !.other_key = @ + 1]
  /\ UNCHANGED <<configured, ig_app, store, threads_token_data, instagram_token_data,
                 now, ticks, pc, platform, items, idx, results, news_item,
                 current_token, calls, status, report, handlers, running, refreshes,
                 metadata>>

NextSettings ==
  \/ RefreshCall
  \/ LoadMetadata
  \/ SaveMetadata
  \/ OtherWriter
  \/ Tick

SpecSettings == InitSettings /\ [][NextSettings]_vars

\* ------------------------------------------------- the Facebook post address
\* The answer of the photo endpoint carries the id of the photo and, when a
\* post was made of it, the composite id of the post; the handler derives
\* the address of the post from the id it picks.
MaxIdLen == 3
FbChars == {"1", "_"}
FbIds == UNION {[1..n -> FbChars] : n \in 1..MaxIdLen}
\* the bodies fb_response.json() returns
FbBodies ==
  {PyDict(<<>>, <<>>)}
  \cup {PyDict(<<"id">>, <<PyStr(a)>>) : a \in FbIds}
  \cup {PyDict(<<"id", "post_id">>, <<PyStr(a), PyStr(b)>>) : a \in FbIds, b \in FbIds}

\* "https://www.facebook.com/" and "/posts/", character by character
FbBase ==
  <<"h", "t", "t", "p", "s", ":", "/", "/", "w", "w", "w", ".", "f", "a", "c", "e", "b",
    "o", "o", "k", ".", "c", "o", "m", "/">>
PostsPath == <<"/", "p", "o", "s", "t", "s", "/">>

\* a replacement that stops behind the first occurrence
RECURSIVE PyReplaceFirst(_, _, _)
PyReplaceFirst(s, old, new) ==
  IF s = <<>> THEN <<>>
  ELSE IF Head(s) = old THEN new \o Tail(s)
       ELSE <<Head(s)>> \o PyReplaceFirst(Tail(s), old, new)

\* s.replace(old, new) for a one-character old: no count is given, so every
\* occurrence is replaced
RECURSIVE PyReplace(_, _, _)
PyReplace(s, old, new) ==
  IF s = <<>> THEN <<>>
  ELSE (IF Head(s) = old THEN new ELSE <<Head(s)>>) \o PyReplace(Tail(s), old, new)

\* fb_data.get("post_id") or fb_data.get("id")
FbPostId(body) == PyOr(DictGet(body, "post_id"), DictGet(body, "id"))

\* fb_post_url
FacebookPostUrl(fb_post_id) ==
  IF Truthy(fb_post_id) THEN PyStr(FbBase \o PyReplace(fb_post_id.s, "_", PostsPath))
  ELSE PyNone

\* FacebookPublishResult: the record r of the iteration with the id and the
\* address taken from the body of the answer
FacebookPublishResult(r, body) ==
  [news_id |-> r.news_id, news_url |-> r.news_url, success |-> r.success,
   error |-> r.error,
   post_id |-> IF r.success THEN FbPostId(body) ELSE PyNone,
   post_url |-> IF r.success THEN FacebookPostUrl(FbPostId(body)) ELSE PyNone]

\* the answers that go with a body: a 200 whose body has an id or has none
FbAnswers(body) ==
  {env \in ItemEnvs("facebook") :
     env.first \in {"ok_id", "ok_noid"} => (env.first = "ok_id") = Truthy(FbPostId(body))}

\* A Facebook request arrives at the idle process.
SubmitFacebook ==
  /\ pc = "idle"
  /\ \E its \in TokenItemLists : StartBatch("facebook", its)

\* One iteration of publish_to_facebook, with the body of the answer.
FacebookItem ==
  /\ pc = "loop"
  /\ platform = "facebook"
  /\ idx < Len(items)
  /\ \E body \in FbBodies : \E env \in FbAnswers(body) :
       Advance([ItemStep("facebook", items[idx + 1], idx + 1, store, env, news_item,
                         current_token)
                  EXCEPT !.result = FacebookPublishResult(@, body)])
  /\ UNCHANGED <<configured, ig_app, store, settings, threads_token_data,
                 instagram_token_data, now, ticks, platform, items, current_token, report,
                 handlers, running, refreshes, metadata>>

NextUrl ==
  \/ SubmitFacebook
  \/ FacebookItem
  \/ ReturnReport
  \/ Finish

SpecUrl == InitToken /\ [][NextUrl]_vars

\* ------------------------------------------------------------ the PIXNET body
\* The contents article 1 is drawn from: up to MaxContent characters, among
\* them blanks and line ends.
MaxContent == 3
ContentChars == {"a", " ", "\n"}
ContentValues == UNION {[1..n -> ContentChars] : n \in 1..MaxContent}

\* The state after import when article 1 holds any content and any images
\* value, structured or as JSON text.
InitPixnet ==
  /\ configured = AllConfigured
  /\ ig_app = FALSE
  /\ \E v \in ImageValues, c \in ContentValues, text \in BOOLEAN :
       store = [i \in {1} |->
                  Article(Str("u1"), Str("T"), PyStr(c), PyNone, PyNone,
                          IF text THEN PyStr(JsonDumps(v)) ELSE v)]
  /\ settings = [threads_last_refresh |-> 0]
  /\ InitTokens
  /\ now = 0
  /\ ticks = 0
  /\ InitRequest

\* A PIXNET request for article 1 arrives at the idle process.
SubmitPixnet ==
  /\ pc = "idle"
  /\ StartBatch("pixnet", <<PublishItem(1, PyNone)>>)

\* One iteration of publish_to_pixnet.
PixnetItem ==
  /\ platform = "pixnet"
  /\ ProcessItem(ItemEnvs("pixnet"))

NextPixnet ==
  \/ SubmitPixnet
  \/ PixnetItem
  \/ ReturnReport
  \/ Finish

SpecPixnet == InitPixnet /\ [][NextPixnet]_vars

\* --------------------------------------------- requests in the same process
\* The requests of one process are coroutines of one event loop: a handler
\* that has been entered runs until it awaits or returns, and only then can
\* the loop enter or resume another.  The points a handler of a token
\* platform passes: the refresh call (requests.get to the refresh endpoint)
\* and the publishing calls of the item loop (requests.post, time.sleep).
HandlerPoints == {"refresh_call", "publish_call"}

\* Suspension as it would be if every network call were awaited.
SuspendsAtNetworkCalls(point) == point \in HandlerPoints

\* The points at which publish_to_threads, publish_to_instagram and the two
\* refresh routines await: none, their calls are blocking calls of requests.
AwaitPoints == {}
Suspends(point) == point \in AwaitPoints

\* the event loop can run a step of handler h
CanRun(h) == running = h \/ running = 0

\* who holds the event loop once h has reached point
Holder(h, point) == IF Suspends(point) THEN 0 ELSE h

\* the refresh routine of platform p gets as far as its call of the endpoint
SendsRefresh(p) ==
  RefreshFor(p, [kind |-> "exc", token |-> -1, expires_in |-> 0], "ok").calls # <<>>

\* The rest of a refresh routine once the endpoint has answered resp: the
\* three assignments to the token data, the persisting (Threads only) and
\* the returned token.
AfterRefreshCall(p, resp, db) ==
  IF resp.kind = "ok"
  THEN Refreshed(TokenData(resp.token, now, resp.expires_in),
                 IF p = "threads" THEN Persist(settings, now, db) ELSE settings,
                 resp.token, <<>>)
  ELSE Refreshed(TokenDataOf(p), settings, TokenDataOf(p).access_token, <<>>)

\* A request for a token platform reaches the server: its handler is
\* scheduled in the first free slot, not yet entered.
Arrive ==
  \E h \in Handlers, p \in TokenPlatforms :
    /\ handlers[h].pc = "idle"
    /\ \A g \in 1..(h - 1) : handlers[g].pc # "idle"
    /\ handlers' = [handlers EXCEPT ![h] = [NoHandler EXCEPT !.pc = "queued", !.platform = p]]
    /\ UNCHANGED <<process, now, ticks, request, running, refreshes, metadata>>

\* The event loop enters a handler: it passes its checks and calls the
\* refresh routine, which either returns the cached token or sends the
\* refresh request.
Enter ==
  \E h \in Handlers :
    /\ handlers[h].pc = "queued"
    /\ CanRun(h)
    /\ LET p == handlers[h].platform
           tok == TokenDataOf(p).access_token
           point == IF SendsRefresh(p) THEN "refresh_call" ELSE "publish_call"
       IN /\ handlers' = [handlers EXCEPT ![h] =
                            [pc |-> point, platform |-> p,
                             token |-> IF SendsRefresh(p) THEN -1 ELSE tok,
                             sent |-> IF SendsRefresh(p) THEN tok ELSE -1,
                             floor |-> tok]]
          /\ running' = Holder(h, point)
    /\ UNCHANGED <<process, now, ticks, request, refreshes, metadata>>

\* The refresh endpoint answers: the routine updates the token data and
\* returns, and the handler goes on to its item loop.
RefreshReturns ==
  \E h \in Handlers :
    /\ handlers[h].pc = "refresh_call"
    /\ CanRun(h)
    /\ \E resp \in RefreshOutcomes(TokenData(handlers[h].sent, NoTime, DefaultTTL)),
          db \in DbOutcomes :
         LET p == handlers[h].platform
             r == AfterRefreshCall(p, resp, db)
         IN /\ threads_token_data' = IF p = "threads" THEN r.td ELSE threads_token_data
            /\ instagram_token_data' = IF p = "instagram" THEN r.td ELSE instagram_token_data
            /\ settings' = r.settings
            /\ handlers' = [handlers EXCEPT ![h].pc = "publish_call", ![h].token = r.token]
            /\ refreshes' = IF resp.kind = "ok"
                             THEN refreshes \cup {[platform |-> p, td |-> r.td]}
                             ELSE refreshes
    /\ running' = Holder(h, "publish_call")
    /\ UNCHANGED <<configured, ig_app, store, now, ticks, request, metadata>>

\* The item loop is over and the handler returns its report.
Respond ==
  \E h \in Handlers :
    /\ handlers[h].pc = "publish_call"
    /\ CanRun(h)
    /\ handlers' = [handlers EXCEPT ![h] = NoHandler]
    /\ running' = 0
    /\ UNCHANGED <<process, now, ticks, request, refreshes, metadata>>

\* Time passes while requests are served: the part of the default validity
\* window after which a token is refreshed.
Elapse ==
  /\ ticks < MaxTicks
  /\ now' = now + (DefaultTTL - RefreshMargin)
  /\ ticks' = ticks + 1
  /\ UNCHANGED <<process, request, coroutines>>

NextConc ==
  \/ Arrive
  \/ Enter
  \/ RefreshReturns
  \/ Respond
  \/ Elapse

SpecConc == InitToken /\ [][NextConc]_vars

\* ---------------------------------------------------------------- properties
\* the calls that reach a publishing platform (time.sleep is not one)
PlatformOps ==
  {"wp_download", "wp_upload", "wp_post", "fb_photo", "ig_create", "ig_publish",
   "th_create", "th_publish", "px_post_oauth2", "px_post_oauth1"}
PlatformCalls(cs) == {i \in 1..Len(cs) : cs[i].op \in PlatformOps}

\* the handler is about to run an iteration of its loop
AtItem == pc = "loop" /\ idx < Len(items)
\* the row the store holds for an item, NoRow when it holds none
RowOf(it) == IF it.news_id \in DOMAIN store THEN store[it.news_id] ELSE NoRow
\* what that iteration does when the outside answers env
StepWith(env) ==
  ItemStep(platform, items[idx + 1], idx + 1, store, env, news_item, current_token)
\* the answers with which the store read returns
ReadReturns == {env \in ItemEnvs(platform) : env.read = "ok"}

\* a text that is absent or empty, and the effective text of two columns
NoText(x) == x.t # "str" \/ x.s = <<>>
Effective(modified, translated) == IF NoText(modified) THEN translated ELSE modified
EmptyEffective(row) ==
  \/ NoText(Effective(row.title_modified, row.title_translated))
  \/ NoText(Effective(row.content_modified, row.content_translated))
\* an images column that is absent or empty
NoImages(row) == row.images \in {PyNone, EmptyStr, PyStr(<<"[", "]">>), PyList(<<>>)}

\* C1: whenever a batch that was not refused returns its report, the results
\* hold one record per input item, total is the number of input items, and
\* success and failed count the records and add up to total.
C1_ReportCounts ==
  /\ pc \in {"loop", "returned", "raised"} => Len(results) = idx
  /\ pc = "returned" =>
       /\ Len(items) > 0
       /\ Len(results) = Len(items)
       /\ report.total = Len(items)
       /\ report.success + report.failed = report.total
       /\ report.success = Cardinality({k \in 1..Len(results) : results[k].success})
       /\ report.failed = Cardinality({k \in 1..Len(results) : ~results[k].success})

C1_MixedReport ==
  /\ pc = "returned"
  /\ report = [total |-> 2, success |-> 1, failed |-> 1]

\* C2: a failing item never makes the batch call raise: the handler never
\* ends with an exception, and a returned report covers every item.
C2_NeverPropagates ==
  /\ pc # "raised"
  /\ pc = "returned" => Len(results) = Len(items)

\* C3: the k-th result record carries the news_id of the k-th input item,
\* whatever the outcomes, and a returned report has a record at every position.
C3_InputOrder ==
  /\ Len(results) <= Len(items)
  /\ \A k \in 1..Len(results) : results[k].news_id = items[k].news_id
  /\ pc = "returned" => Len(results) = Len(items)

C3_FailureThenSuccess ==
  /\ pc = "returned"
  /\ Len(items) = 2
  /\ items[1].news_id # items[2].news_id
  /\ RowOf(items[1]) = NoRow
  /\ ~results[1].success
  /\ results[2].success

\* C4: on every platform, when the lookup of the next item returns no row,
\* the iteration records a failure with the not-found error, makes no
\* platform call and does not raise; a not-found record is never a success.
C4_NotFound ==
  /\ AtItem /\ RowOf(items[idx + 1]) = NoRow =>
       \A env \in ReadReturns :
         LET s == StepWith(env) IN
         /\ ~s.raised
         /\ ~s.result.success
         /\ s.result.error = "not_found"
         /\ s.result.news_id = items[idx + 1].news_id
         /\ PlatformCalls(s.calls) = {}
  /\ \A k \in 1..Len(results) :
       RowOf(items[k]) = NoRow => ~results[k].success

C4_NotFoundAfterFetched ==
  /\ pc = "loop"
  /\ idx = 2
  /\ results[1].success
  /\ RowOf(items[2]) = NoRow
  /\ results[2].error = "not_found"
  /\ PlatformCalls(calls) = {}

\* C5: on every platform, an item whose effective title or effective content
\* is empty causes no platform call of any kind, and no success record: a
\* record made for it is a failure.
C5_EmptyNeverSubmitted ==
  /\ AtItem /\ RowOf(items[idx + 1]) # NoRow /\ EmptyEffective(RowOf(items[idx + 1])) =>
       \A env \in ItemEnvs(platform) :
         LET s == StepWith(env) IN
         /\ PlatformCalls(s.calls) = {}
         /\ ~s.result.success
  /\ \A k \in 1..Len(results) :
       RowOf(items[k]) # NoRow /\ EmptyEffective(RowOf(items[k])) => ~results[k].success

C5_EmptyContentOnWordpress ==
  /\ pc = "loop"
  /\ idx >= 1
  /\ platform = "wordpress"
  /\ RowOf(items[idx]) # NoRow
  /\ EmptyEffective(RowOf(items[idx]))
  /\ Truthy(ImageToUse(items[idx].selected_image, RowOf(items[idx])))
  /\ results[idx].error = "empty_title_or_content"
  /\ PlatformCalls(calls) = {}

\* C6: on Facebook, Instagram and Threads, for an existing article with no
\* selected image and an empty or absent images column, the title and content
\* check runs before the image check: the item is never submitted and never
\* succeeds, and its error is the image-required error when title and content
\* are both non-empty, the empty-title-or-content error otherwise.
C6_ImageRequiredAfterText ==
  AtItem /\ platform \in ImagePlatforms /\ RowOf(items[idx + 1]) # NoRow
         /\ items[idx + 1].selected_image = PyNone /\ NoImages(RowOf(items[idx + 1])) =>
    \A env \in ReadReturns :
      LET s == StepWith(env) IN
      /\ ~s.result.success
      /\ PlatformCalls(s.calls) = {}
      /\ s.result.error = IF EmptyEffective(RowOf(items[idx + 1]))
                          THEN "empty_title_or_content" ELSE "image_required"

C6_ImageRequiredRecorded ==
  /\ pc = "loop"
  /\ idx >= 1
  /\ platform = "facebook"
  /\ RowOf(items[idx]) # NoRow
  /\ items[idx].selected_image = PyNone
  /\ NoImages(RowOf(items[idx]))
  /\ ~EmptyEffective(RowOf(items[idx]))
  /\ results[idx].error = "image_required"
  /\ PlatformCalls(calls) = {}

\* C6 as stated: such an article fails with the image-required error
\* whether its title and content are valid or empty.
C6_AlwaysImageRequired ==
  AtItem /\ platform \in ImagePlatforms /\ RowOf(items[idx + 1]) # NoRow
         /\ items[idx + 1].selected_image = PyNone /\ NoImages(RowOf(items[idx + 1])) =>
    \A env \in ReadReturns : StepWith(env).result.error = "image_required"

\* C7: a batch for an unconfigured platform (503) or with no items (400) is
\* refused, and only such a batch is: the refusal reads no article, calls no
\* platform and no refresh endpoint, writes no setting and leaves the token
\* data as they were.  The configured flags never change.
C7_RefusedBeforeAnything ==
  [][ /\ configured' = configured
      /\ pc = "idle" /\ pc' # "idle" =>
           IF ~configured[platform'] \/ items' = <<>>
           THEN /\ pc' = "refused"
                /\ status' = IF ~configured[platform'] THEN 503 ELSE 400
                /\ calls' = <<>>
                /\ results' = <<>>
                /\ UNCHANGED <<store, settings, threads_token_data, instagram_token_data>>
           ELSE pc' = "loop" /\ status' = 0
      /\ pc' = "refused" => pc = "idle" ]_vars

C7_StaleUnconfiguredRefused ==
  /\ pc = "refused"
  /\ status = 503
  /\ platform = "threads"
  /\ Len(items) > 0
  /\ threads_token_data.last_refresh = NoTime

\* the refresh routine of a platform can reach its endpoint
CanRefresh(p) == p = "threads" \/ ig_app
RefreshOp(p) == IF p = "threads" THEN "th_refresh" ELSE "ig_refresh"
\* what the refresh routine of p does now, for every answer of the outside
RefreshRuns(p) ==
  {RefreshFor(p, resp, db) : resp \in RefreshOutcomes(TokenDataOf(p)), db \in DbOutcomes}
CallsEndpoint(r, p) == \E i \in 1..Len(r.calls) : r.calls[i].op = RefreshOp(p)
Age(p) == now - TokenDataOf(p).last_refresh
Threshold(p) == TokenDataOf(p).expires_in - 86400

\* C8: for a token that has been refreshed before, the freshness check of a
\* platform that can refresh calls the refresh endpoint exactly when the age
\* of the token is at least ttl - 86400 seconds; at ttl - 86400 - 1 it does not.
C8_RefreshFromThreshold ==
  \A p \in TokenPlatforms :
    CanRefresh(p) /\ TokenDataOf(p).last_refresh # NoTime =>
      \A r \in RefreshRuns(p) : CallsEndpoint(r, p) <=> Age(p) >= Threshold(p)

C8_RefreshAtThreshold ==
  /\ pc = "loop"
  /\ idx = 0
  /\ platform = "threads"
  /\ threads_token_data.last_refresh # NoTime
  /\ Age("threads") = Threshold("threads")
  /\ CallsEndpoint([calls |-> calls], "threads")

\* C8 as stated: at the age of ttl - 86400 - 1 seconds the refresh endpoint
\* is called.
C8_RefreshOneSecondEarly ==
  \A p \in TokenPlatforms :
    CanRefresh(p) /\ TokenDataOf(p).last_refresh # NoTime /\ Age(p) = Threshold(p) - 1 =>
      \A r \in RefreshRuns(p) : CallsEndpoint(r, p)

\* C9: a batch that starts with a fresh token (now - last_refresh < ttl - 86400)
\* uses the cached access token, calls no refresh endpoint, writes nothing
\* to the settings and leaves access_token, last_refresh and ttl as they were.
C9_FreshTokenKept ==
  [][ /\ pc = "idle" /\ pc' = "loop"
      /\ TokenDataOf(platform').last_refresh # NoTime
      /\ now - TokenDataOf(platform').last_refresh < TokenDataOf(platform').expires_in - 86400
      => /\ calls' = <<>>
         /\ current_token' = TokenDataOf(platform').access_token
         /\ UNCHANGED <<settings, threads_token_data, instagram_token_data>> ]_vars

C9_FreshAfterTenSeconds ==
  /\ pc = "loop"
  /\ idx = 0
  /\ platform = "threads"
  /\ threads_token_data = TokenData(0, 0, 5184000)
  /\ now = 10
  /\ calls = <<>>
  /\ current_token = 0

\* C10: a token that was never refreshed is never taken for fresh: the
\* freshness check calls the refresh endpoint whatever the time since the
\* grant, on Threads always and on Instagram exactly when the app id and
\* secret are set.
C10_NeverRefreshedIsStale ==
  \A p \in TokenPlatforms :
    TokenDataOf(p).last_refresh = NoTime =>
      \A r \in RefreshRuns(p) : CallsEndpoint(r, p) <=> CanRefresh(p)

C10_FirstBatchRefreshes ==
  /\ pc = "loop"
  /\ idx = 0
  /\ platform = "threads"
  /\ now = 0
  /\ threads_token_data.last_refresh = NoTime
  /\ CallsEndpoint([calls |-> calls], "threads")

\* C10 as stated: a token never refreshed and still within its initial
\* grant is returned without a call to the refresh endpoint.
C10_NeverRefreshedIsFresh ==
  \A p \in TokenPlatforms :
    TokenDataOf(p).last_refresh = NoTime /\ now < Threshold(p) =>
      \A r \in RefreshRuns(p) : ~CallsEndpoint(r, p)

\* the refresh routine of p is about to call its endpoint
Stale(p) ==
  /\ CanRefresh(p)
  /\ \/ TokenDataOf(p).last_refresh = NoTime
     \/ Age(p) >= Threshold(p)
\* the answers of the refresh endpoint that carry a new token
Granted(p) == {resp \in RefreshOutcomes(TokenDataOf(p)) : resp.kind = "ok"}
Persisted(r) == \E i \in 1..Len(r.calls) : r.calls[i].op = "settings_upsert"
\* the calls of a token platform that carry the access token
TokenOps == {"ig_create", "ig_publish", "th_create", "th_publish"}

\* C11: a successful refresh (200 with a new access token) sets access_token
\* to the new token, last_refresh to now and ttl to the advertised
\* expires_in, and returns the new token; Threads also writes last_refresh to
\* the settings store, Instagram keeps it in memory only and writes nothing.
\* The token returned is the one every platform call of the batch carries.
C11_SuccessfulRefresh ==
  /\ \A p \in TokenPlatforms :
       Stale(p) =>
         \A resp \in Granted(p), db \in DbOutcomes :
           LET r == RefreshFor(p, resp, db) IN
           /\ r.td = [access_token |-> resp.token, last_refresh |-> now,
                      expires_in |-> resp.expires_in]
           /\ r.token = resp.token
           /\ r.token # TokenDataOf(p).access_token
           /\ p = "threads" /\ db # "save_fail" =>
                Persisted(r) /\ r.settings.threads_last_refresh = now
           /\ p = "instagram" => ~Persisted(r) /\ r.settings = settings
  /\ pc \in {"loop", "returned", "raised"} /\ platform \in TokenPlatforms =>
       /\ current_token = TokenDataOf(platform).access_token
       /\ \A i \in 1..Len(calls) : calls[i].op \in TokenOps => calls[i].tok = current_token

C11_PublishedWithNewToken ==
  /\ pc = "loop"
  /\ idx = 1
  /\ platform = "threads"
  /\ threads_token_data.access_token = 1
  /\ threads_token_data.last_refresh > 0
  /\ settings.threads_last_refresh = threads_token_data.last_refresh
  /\ results[1].success
  /\ \E i \in 1..Len(calls) : calls[i].op = "th_publish" /\ calls[i].tok = 1

\* C11 as stated: on both platforms a successful refresh writes last_refresh
\* to the settings store.
C11_BothPersist ==
  \A p \in TokenPlatforms :
    Stale(p) =>
      \A resp \in Granted(p) : Persisted(RefreshFor(p, resp, "ok"))

\* the answers of the refresh endpoint that carry no new token: an
\* exception, a non-200 status, a 200 without access_token
Denied(p) == {resp \in RefreshOutcomes(TokenDataOf(p)) : resp.kind # "ok"}

\* C12: when the refresh attempt fails, the freshness check returns the last
\* known token and leaves access_token, last_refresh, ttl and the settings
\* as they were; the batch enters its loop with that token, a refused
\* platform call becomes a failure record, and the batch returns 200.
C12_RefreshFailureFallsBack ==
  /\ \A p \in TokenPlatforms :
       Stale(p) =>
         \A resp \in Denied(p), db \in DbOutcomes :
           LET r == RefreshFor(p, resp, db) IN
           /\ CallsEndpoint(r, p)
           /\ r.token = TokenDataOf(p).access_token
           /\ r.td = TokenDataOf(p)
           /\ r.settings = settings
  /\ pc = "loop" /\ idx = 0 /\ platform = "threads"
       /\ threads_token_data.last_refresh = NoTime =>
         /\ CallsEndpoint([calls |-> calls], "threads")
         /\ current_token = threads_token_data.access_token
  /\ pc = "returned" => status = 200
  /\ \A k \in 1..Len(results) :
       results[k].error = "api_status" => ~results[k].success

C12_AuthErrorAfterFailedRefresh ==
  /\ pc = "returned"
  /\ status = 200
  /\ platform = "threads"
  /\ threads_token_data.last_refresh = NoTime
  /\ current_token = threads_token_data.access_token
  /\ results[1].error = "api_status"
  /\ report = [total |-> 1, success |-> 0, failed |-> 1]

\* C13: when the settings store cannot be read or written while last_refresh
\* is persisted after a successful Threads refresh, the in-memory token
\* state is still the refreshed one and the new token is still returned;
\* the batch goes on with it (it is neither refused nor ended by an
\* exception) and its platform calls carry it.
C13_PersistFailureIsHarmless ==
  /\ Stale("threads") =>
       \A resp \in Granted("threads"), db \in {"load_fail", "save_fail"} :
         LET r == RefreshFor("threads", resp, db) IN
         /\ r.td = [access_token |-> resp.token, last_refresh |-> now,
                    expires_in |-> resp.expires_in]
         /\ r.token = resp.token
         /\ db = "save_fail" => r.settings = settings
  /\ pc \in {"loop", "returned"} /\ platform = "threads"
       /\ settings.threads_last_refresh # threads_token_data.last_refresh =>
         /\ current_token = threads_token_data.access_token
         /\ \A i \in 1..Len(calls) : calls[i].op \in TokenOps => calls[i].tok = current_token
  /\ pc # "raised"
  /\ pc = "refused" => items = <<>>

C13_RefreshedButNotPersisted ==
  /\ pc = "loop"
  /\ idx = 0
  /\ platform = "threads"
  /\ Persisted([calls |-> calls])
  /\ settings.threads_last_refresh = NoTime
  /\ threads_token_data.access_token = 1
  /\ threads_token_data.last_refresh = now
  /\ current_token = 1

\* ---------------------------------------------------------------------- C14
\* the token data of p holds the values of one refresh, or those of the import
OneRefresh(p) ==
  \/ [platform |-> p, td |-> TokenDataOf(p)] \in refreshes
  \/ /\ TokenDataOf(p).access_token = 0
     /\ TokenDataOf(p).expires_in = DefaultTTL
     /\ \A r \in refreshes : r.platform # p

\* C14: when requests for the same token platform are in the process at the
\* same time, the refresh check-and-update runs for one of them at a time: a
\* handler whose refresh call is in flight holds the event loop, so no two
\* refresh calls of a platform are in flight together; the token data of a
\* platform always holds the values of a single refresh; and a handler
\* publishes with the platform's current token, never with one that had
\* been replaced before the handler was entered.
C14_RefreshSerialized ==
  /\ \A h \in Handlers : handlers[h].pc = "refresh_call" => running = h
  /\ \A h1, h2 \in Handlers :
       /\ handlers[h1].pc = "refresh_call" /\ handlers[h2].pc = "refresh_call"
       /\ handlers[h1].platform = handlers[h2].platform
       => h1 = h2
  /\ \A p \in TokenPlatforms : OneRefresh(p)
  /\ \A h \in Handlers :
       handlers[h].pc = "publish_call"
       => /\ handlers[h].token >= handlers[h].floor
          /\ handlers[h].token = TokenDataOf(handlers[h].platform).access_token

\* a refreshed token is in use by one handler while another request for the
\* same platform, which the first refresh left nothing to do for, waits
C14_SecondRequestWaits ==
  \E h1, h2 \in Handlers :
    /\ h1 # h2
    /\ handlers[h1].platform = handlers[h2].platform
    /\ handlers[h1].pc = "publish_call" /\ handlers[h1].token > handlers[h1].floor
    /\ handlers[h2].pc = "queued"
    /\ ~SendsRefresh(handlers[h2].platform)

\* ---------------------------------------------------------------------- C15
\* the calls of the latest step that create a container
Creates == {i \in 1..Len(calls) : calls[i].op \in {"th_create", "ig_create"}}
LimitOf(op) == IF op = "th_create" THEN ThreadsLimit ELSE InstagramLimit

\* the last three characters of text are "..."
EndsWithDots(text) ==
  /\ Len(text) >= 3
  /\ \A j \in 0..2 : text[Len(text) - j] = "."

\* the first n characters of a and of b are the same
SameStart(a, b, n) == \A j \in 1..n : a[j] = b[j]

\* C15: the text of a Threads container is at most 500 characters and the
\* caption of an Instagram container at most 2200; a composed text longer
\* than the limit is sent as exactly limit characters, the last three of
\* them "..." behind the start of the composed text, and a composed text of
\* at most limit characters is sent as it is.
C15_TextWithinLimit ==
  \A i \in Creates :
    /\ Len(calls[i].text) <= LimitOf(calls[i].op)
    /\ Len(PostText(news_item)) > LimitOf(calls[i].op)
       => /\ Len(calls[i].text) = LimitOf(calls[i].op)
          /\ EndsWithDots(calls[i].text)
          /\ SameStart(calls[i].text, PostText(news_item), LimitOf(calls[i].op) - 3)
    /\ Len(PostText(news_item)) <= LimitOf(calls[i].op)
       => calls[i].text = PostText(news_item)

\* a Threads container carries a text that had one character too many
C15_CutToLimit ==
  \E i \in Creates :
    /\ calls[i].op = "th_create"
    /\ Len(PostText(news_item)) = ThreadsLimit + 1
    /\ Len(calls[i].text) = ThreadsLimit

\* ---------------------------------------------------------------------- C16
\* the calls that carry the image of an item, and the images they carry
ImageOps == {"wp_download", "fb_photo", "ig_create", "th_create"}
ImageRefs(cs) == {cs[i].ref : i \in {j \in 1..Len(cs) : cs[j].op \in ImageOps}}

\* what an iteration for article id without a selected image does
StepOn(id, env) ==
  ItemStep(platform, PublishItem(id, PyNone), idx + 1, store, env, news_item, current_token)

\* C16: the image resolved from a structured images value and the one
\* resolved from the JSON text of the same value are the same, and
\* resolving a stored value again gives the same image: whatever the
\* outside answers, the iterations for the two articles carry at most one
\* image between them, the one the structured value resolves to.
C16_SameImageForBothEncodings ==
  /\ FirstImage(store[1].images) = FirstImage(store[2].images)
  /\ pc = "loop" =>
       \A env1, env2 \in ReadReturns :
         /\ Cardinality(ImageRefs(StepOn(1, env1).calls) \cup ImageRefs(StepOn(2, env2).calls)) <= 1
         /\ ImageRefs(StepOn(2, env2).calls) \subseteq {FirstImage(store[1].images)}

\* the article with the JSON text has been published on Facebook with the
\* first url of the structured value of the other article
C16_EncodedListPublished ==
  /\ pc = "loop"
  /\ idx = 1
  /\ platform = "facebook"
  /\ items[1] = PublishItem(2, PyNone)
  /\ store[1].images = NativeUrlList
  /\ store[2].images.t = "str"
  /\ ImageRefs(calls) = {Str("i1")}
  /\ results[1].success

\* ---------------------------------------------------------------------- C17
\* The image the sentence describes for a decoded images value: the first
\* element of an array, or its url when that element is an object, and the
\* url of a single object.
EntryUrl(v) ==
  CASE v.t = "list" /\ v.v # <<>> ->
         IF v.v[1].t = "dict" THEN DictGet(v.v[1], <<"url">>) ELSE v.v[1]
    [] v.t = "dict" -> DictGet(v, <<"url">>)
    [] OTHER -> PyNone
DescribedImage(sel, images) ==
  IF sel # PyNone THEN sel
  ELSE IF images.t = "str"
       THEN (IF JsonLoads(images.s).ok THEN EntryUrl(JsonLoads(images.s).v) ELSE PyNone)
  ELSE EntryUrl(images)

\* C17 as stated: the selected image is the one used; with none selected
\* the first entry of the images value is used, unwrapped to a url whether
\* the value is an array (its first element, or that element's url when it
\* is an object) or a single object (its url); none is used when parsing
\* fails or there is no image.
C17_FirstEntryUnwrapped ==
  AtItem =>
    \A env \in ReadReturns :
      ImageRefs(StepWith(env).calls)
        \subseteq {DescribedImage(items[idx + 1].selected_image, RowOf(items[idx + 1]).images)}

\* ---------------------------------------------------------------------- C18
\* the rewrite handler is about to run an iteration of its loop
AtNewsItem == pc = "loop" /\ platform = "rewrite" /\ idx < Len(items)
\* what that iteration does with completion c and store answer upd
RewriteWith(c, upd) == RewriteStep(items[idx + 1], idx + 1, store, c, upd)
\* the texts a rewritten title or content can be
RewrittenTexts == {Str("A"), Str("B"), Str("A2"), Str("B2")}
\* some stored article has this url
Stored(url) == \E i \in DOMAIN store : store[i].url = url

\* C18: for an item with url U whose completion is the JSON of non-empty
\* title_modified A and content_modified B, with an article of url U stored
\* and the update executed by the store, every article of url U holds A and
\* B afterwards and the item's result is a success with url U, A and B.
C18_RewriteRoundTrip ==
  AtNewsItem /\ items[idx + 1].url.t = "str" /\ items[idx + 1].title_translated.t = "str"
             /\ Stored(items[idx + 1].url) =>
    \A a, b \in RewrittenTexts :
      LET s == RewriteWith(Completion("text", JsonDumps(Rewritten(a, b))), "ok") IN
      /\ \A i \in DOMAIN store :
           store[i].url = items[idx + 1].url
           => s.store[i].title_modified = a /\ s.store[i].content_modified = b
      /\ s.result = AIRewriteResult(items[idx + 1].url, a, b, TRUE, "")
      /\ ~s.raised

\* both articles share url u1 and a rewrite of u1 has given both A2 and B2
C18_BothArticlesRewritten ==
  /\ pc = "loop"
  /\ platform = "rewrite"
  /\ idx >= 1
  /\ items[idx].url = Str("u1")
  /\ results[idx] = AIRewriteResult(Str("u1"), Str("A2"), Str("B2"), TRUE, "")
  /\ \A i \in DOMAIN store :
       /\ store[i].url = Str("u1")
       /\ store[i].title_modified = Str("A2")
       /\ store[i].content_modified = Str("B2")

\* ---------------------------------------------------------------------- C19
\* the url of the result record of an item
RecordUrl(it) == IF Truthy(it.url) THEN it.url ELSE EmptyStr

\* C19: in a rewrite batch no failure of an item ends the loop: whatever
\* the completion call and the store answer, the iteration appends one
\* record, that of its own item, and the loop goes on; the handler raises
\* only before the loop.  The results follow the input order, and the
\* returned report has total = number of input items and success + failed
\* = total.
C19_RewriteBatchIsolation ==
  /\ platform = "rewrite" /\ pc \in {"loop", "returned"} =>
       /\ Len(results) = idx
       /\ \A k \in 1..Len(results) : results[k].url = RecordUrl(items[k])
  /\ AtNewsItem =>
       \A c \in CompletionOutcomes, upd \in UpdateOutcomes :
         /\ ~RewriteWith(c, upd).raised
         /\ RewriteWith(c, upd).result.url = RecordUrl(items[idx + 1])
  /\ platform = "rewrite" /\ pc = "raised" => idx = 0 /\ results = <<>> /\ calls = <<>>
  /\ platform = "rewrite" /\ pc = "returned" =>
       /\ Len(results) = Len(items)
       /\ report.total = Len(items)
       /\ report.success + report.failed = report.total
       /\ report.success = Cardinality({k \in 1..Len(results) : results[k].success})

\* a report of two items: the first failed on its JSON, the second succeeded
C19_SuccessAfterBadJson ==
  /\ platform = "rewrite"
  /\ pc = "returned"
  /\ Len(results) = 2
  /\ results[1].error = "json_decode"
  /\ results[2].success
  /\ report = [total |-> 2, success |-> 1, failed |-> 1]

\* ---------------------------------------------------------------------- C20
\* the calls of cs that update the store
Updates(cs) == {i \in 1..Len(cs) : cs[i].op = "store_update"}
\* a completion that is JSON with both fields non-empty
Complete(c) ==
  /\ c.kind = "text"
  /\ \E v \in CompletionValues :
       /\ c.text = JsonDumps(v)
       /\ v.t = "dict"
       /\ ~NoText(DictGet(v, TitleKey))
       /\ ~NoText(DictGet(v, ContentKey))

\* C20: an iteration issues a store update only when its completion parsed
\* as JSON with title_modified and content_modified both non-empty; when the
\* completion is no valid JSON or a field is missing or empty there is no
\* update call, the store stays as it is and the result is a failure; when
\* the update matches no row the result is a failure and no article has
\* changed.  A failure never leaves an article changed.
C20_WriteOnlyAfterParse ==
  AtNewsItem =>
    \A c \in CompletionOutcomes, upd \in UpdateOutcomes :
      LET s == RewriteWith(c, upd) IN
      /\ Updates(s.calls) # {} => Complete(c)
      /\ ~Complete(c) => Updates(s.calls) = {} /\ s.store = store /\ ~s.result.success
      /\ Updates(s.calls) # {} /\ ~Stored(items[idx + 1].url) =>
           ~s.result.success /\ s.store = store
      /\ ~s.result.success => s.store = store

\* an update for a url no article has: a failure, the store as before
C20_UpdateMatchedNothing ==
  /\ pc = "loop"
  /\ platform = "rewrite"
  /\ idx = 1
  /\ items[1].url = Str("u9")
  /\ Updates(calls) # {}
  /\ results[1].error = "update_failed"
  /\ store[1] = GoodArticle

\* ---------------------------------------------------------------------- C21
\* how often the calls cs reach the endpoint op
Times(cs, op) == Cardinality({i \in 1..Len(cs) : cs[i].op = op})

\* C21: no publisher retries: whatever the store and the platform answer,
\* the calls of the iteration for an item (calls holds those of the latest
\* iteration) reach each platform endpoint (media download and upload and
\* post of WordPress, photo post of Facebook, container and publish of
\* Instagram and Threads, article post of PIXNET) at most once.
C21_NoRetry ==
  \A op \in PlatformOps : Times(calls, op) <= 1

\* Facebook refused the photo post of an item: one call, and a failure
C21_RefusedOnce ==
  /\ pc = "loop"
  /\ idx = 1
  /\ platform = "facebook"
  /\ results[1].error = "api_status"
  /\ Times(calls, "fb_photo") = 1

\* ---------------------------------------------------------------------- C22
\* row b is row a except for title_modified and content_modified
SameButModified(a, b) ==
  [b EXCEPT !.title_modified = a.title_modified, !.content_modified = a.content_modified] = a

\* C22: no step of a publish batch, on any platform and however it ends,
\* changes the article table; no step removes an article; the table changes
\* only in an iteration of the rewrite loop, and then only title_modified
\* and content_modified of its rows change.
C22_StoreChangesOnlyByRewrite ==
  [][ /\ DOMAIN store' = DOMAIN store
      /\ store' # store =>
           /\ platform = "rewrite" /\ pc = "loop"
           /\ \A i \in DOMAIN store : SameButModified(store[i], store'[i]) ]_vars

\* a publish batch has succeeded with an article that a rewrite had
\* changed before, and the article is as the rewrite left it
C22_PublishedAfterRewrite ==
  /\ platform \in Platforms
  /\ pc = "returned"
  /\ results[1].success
  /\ items[1].news_id = 1
  /\ store[1] = [GoodArticle EXCEPT !.title_modified = Str("A"), !.content_modified = Str("B")]

\* ---------------------------------------------------------------------- C23
\* An item is Pending until its iteration starts, Fetched once the store
\* read has returned its row, Transformed once title, content and image have
\* passed the checks, and Published or Failed once its record has been
\* appended: Published is a success record, Failed a failure record.
Terminal(k) == IF k <= Len(results) THEN (IF results[k].success THEN "Published" ELSE "Failed")
               ELSE "none"
\* the store read is the first call of cs and every platform call is behind it
ReadFirst(cs) == cs # <<>> /\ cs[1].op = "store_select" /\ 1 \notin PlatformCalls(cs)

\* C23 as stated: every item goes Pending -> Fetched -> Transformed ->
\* Published | Failed.  A Published item has been fetched and transformed
\* (its row exists, its effective title and content are non-empty, the
\* store read precedes its platform calls); whatever the outside answers,
\* the iteration of an item ends with one record, Published or Failed; and
\* when the handler has answered an accepted batch every item is in
\* exactly one terminal state.
C23_ItemStateMachine ==
  /\ \A k \in 1..Len(results) :
       Terminal(k) = "Published" =>
         RowOf(items[k]) # NoRow /\ ~EmptyEffective(RowOf(items[k]))
  /\ pc = "loop" /\ idx >= 1 /\ Terminal(idx) = "Published" => ReadFirst(calls)
  /\ AtItem => \A env \in ItemEnvs(platform) : ~StepWith(env).raised
  /\ pc \in {"returned", "raised"} =>
       \A k \in 1..Len(items) : Terminal(k) \in {"Published", "Failed"}

\* ---------------------------------------------------------------------- C24
\* what one iteration of the item loop does to the records
InOrderStep ==
  platform \in Platforms /\ pc = "loop" /\ (idx' # idx \/ pc' = "raised") =>
    /\ Len(results) = idx
    /\ \A i \in DOMAIN calls' : calls'[i].k = idx + 1
    /\ idx' # idx =>
         /\ idx' = idx + 1
         /\ Len(results') = idx + 1
         /\ SubSeq(results', 1, idx) = results
         /\ results'[idx + 1].news_id = items[idx + 1].news_id
\* C24: within one batch the items are processed one at a time in input
\* order.  An iteration starts when the records of all items in front of it
\* have been appended, every store read and platform call it makes is for
\* the item at that position, and it ends by appending the record of that
\* item behind the others, which it leaves as they are; between iterations
\* no item is under way (there are as many records as items taken).
C24_OneAtATimeInOrder == [][InOrderStep]_vars
\* the second of two different items has been processed, after the first
C24_SecondAfterFirst ==
  /\ platform \in Platforms /\ pc = "loop" /\ idx = 2
  /\ items[1].news_id # items[2].news_id
  /\ results[1].news_id = items[1].news_id /\ results[2].news_id = items[2].news_id
  /\ PlatformCalls(calls) # {} /\ \A i \in DOMAIN calls : calls[i].k = 2

\* ---------------------------------------------------------------------- C25
\* what the handler of a token platform does about its credential: the
\* freshness check runs when the batch starts, an iteration of the loop
\* neither refreshes nor changes the token
ResolveStep ==
  /\ pc = "idle" /\ pc' = "loop" /\ platform' \in TokenPlatforms =>
       /\ Stale(platform') => Times(calls', RefreshOp(platform')) = 1
       /\ ~Stale(platform') => calls' = <<>>
       /\ current_token' = IF platform' = "threads" THEN threads_token_data'.access_token
                                                    ELSE instagram_token_data'.access_token
  /\ pc = "loop" /\ platform \in TokenPlatforms /\ idx' # idx =>
       /\ Times(calls', RefreshOp(platform)) = 0
       /\ \A i \in DOMAIN calls' : calls'[i].op \in TokenOps => calls'[i].tok = current_token
       /\ current_token' = current_token
       /\ threads_token_data' = threads_token_data
       /\ instagram_token_data' = instagram_token_data
\* C25 (amended): for Instagram and Threads batches the credential is
\* resolved once per batch, before the loop and before any article is
\* fetched: the freshness check runs (and refreshes a stale token) when the
\* batch starts, and every item of the batch carries the token it returned;
\* no iteration checks or refreshes the token, also when the token has
\* become stale during the batch.
C25_ResolvedOncePerBatch == [][ResolveStep]_vars
\* an item was published with the token of the batch start although the
\* token had become stale before the item was taken
C25_PublishedWithStaleToken ==
  /\ pc = "loop" /\ idx = 1 /\ platform \in TokenPlatforms
  /\ TokenDataOf(platform).last_refresh # NoTime
  /\ Stale(platform)
  /\ results[1].success
  /\ Times(calls, RefreshOp(platform)) = 0
  /\ \E i \in DOMAIN calls : calls[i].op \in TokenOps /\ calls[i].tok = current_token
\* C25 as stated: the credential is resolved for each item, after the
\* article is fetched and before the platform call, so the iteration of an
\* item taken while the token is stale calls the refresh endpoint before
\* its first platform call.
C25_ResolvedPerItem ==
  AtItem /\ platform \in TokenPlatforms /\ Stale(platform) =>
    \A env \in TokenItemEnvs :
      \A i \in PlatformCalls(StepWith(env).calls) :
        \E j \in 1..(i - 1) : StepWith(env).calls[j].op = RefreshOp(platform)

\* ---------------------------------------------------------------------- C26
CreateOp(p) == IF p = "instagram" THEN "ig_create" ELSE "th_create"
PublishOp(p) == IF p = "instagram" THEN "ig_publish" ELSE "th_publish"
\* the two calls of the iteration step of item k on p, made with answers env
TwoPhaseOrder(p, k, env, step) ==
  /\ \A i \in DOMAIN step.calls :
       step.calls[i].op = PublishOp(p) =>
         /\ env.first = "ok_id"
         /\ step.calls[i].ref = PlatformId("c", k)
         /\ IF p = "instagram"
            THEN i > 2 /\ step.calls[i - 1].op = "sleep" /\ step.calls[i - 2].op = "ig_create"
            ELSE i > 1 /\ step.calls[i - 1].op = "th_create"
  /\ Times(step.calls, CreateOp(p)) <= 1
  /\ Times(step.calls, CreateOp(p)) = 1 /\ env.first = "ok_id" =>
       Times(step.calls, PublishOp(p)) = 1
  /\ env.first \in {"exc", "bad", "ok_noid"} =>
       Times(step.calls, PublishOp(p)) = 0 /\ ~step.result.success
  /\ p = "threads" => Times(step.calls, "sleep") = 0
\* C26: on Instagram and Threads the publish call of an item is issued only
\* after the container call of that item answered 200 with an id, and it
\* refers to that id; when creation is refused or gives no id no publish
\* call is made and the item fails.  On Instagram a settle step (sleep)
\* stands between the two calls, on Threads the publish call comes directly
\* behind the creation.
C26_TwoPhase ==
  AtItem /\ platform \in TokenPlatforms =>
    \A env \in ItemEnvs(platform) : TwoPhaseOrder(platform, idx + 1, env, StepWith(env))
\* an Instagram item was published: container, settle, publish of the container
C26_PublishedContainer ==
  /\ pc = "loop" /\ idx = 1 /\ platform = "instagram"
  /\ results[1].success
  /\ \E i \in 3..Len(calls) :
       /\ calls[i].op = "ig_publish" /\ calls[i].ref = PlatformId("c", 1)
       /\ calls[i - 1].op = "sleep"
       /\ calls[i - 2].op = "ig_create"

\* ---------------------------------------------------------------------- C27
\* C27 as stated: a PIXNET item whose bearer request is answered with an
\* error (a refused status, or a 200 carrying an error) makes a signed
\* OAuth1 request for the same item before it is declared failed.
C27_FallsBackToOAuth1 ==
  AtItem /\ platform = "pixnet" =>
    \A env \in ItemEnvs("pixnet") :
      env.first \in {"bad", "ok_err"} /\ Times(StepWith(env).calls, "px_post_oauth2") = 1 =>
        \E i, j \in DOMAIN StepWith(env).calls :
          /\ i < j
          /\ StepWith(env).calls[i].op = "px_post_oauth2"
          /\ StepWith(env).calls[j].op = "px_post_oauth1"

\* ---------------------------------------------------------------------- C28
IdPlatforms == {"wordpress", "facebook", "instagram"}
\* the call of p whose answer decides the outcome of an item
FinalOp(p) == CASE p = "wordpress" -> "wp_post" [] p = "facebook" -> "fb_photo"
                [] OTHER -> "ig_publish"
\* the answer to that call
FinalAnswer(p, env) == CASE p = "wordpress" -> env.third [] p = "facebook" -> env.first
                         [] OTHER -> env.second
\* the step of an item on p with answers env: success is decided by the
\* status of the final call, the id is the one the answer carried, if any
SuccessByStatus(p, env, step) ==
  Times(step.calls, FinalOp(p)) = 1 /\ ~step.raised =>
    /\ step.result.success = (FinalAnswer(p, env) \in {"ok_id", "ok_noid"})
    /\ step.result.success =>
         (step.result.post_id # PyNone) = (FinalAnswer(p, env) = "ok_id")
ChecksPass == RowOf(items[idx + 1]) # NoRow /\ ~EmptyEffective(RowOf(items[idx + 1]))
\* the upload of the image gave a media id
MediaId(env, step) == Times(step.calls, "wp_upload") = 1 /\ env.second = "ok_id"
\* the WordPress step of item k with answers env, its checks passed
DraftWhateverTheImage(k, env, step) ==
  /\ Times(step.calls, "wp_post") = 1
  /\ \A i \in DOMAIN step.calls :
       step.calls[i].op = "wp_post" =>
         /\ i = Len(step.calls)
         /\ step.calls[i].ref.status = "draft"
         /\ ("featured_media" \in DOMAIN step.calls[i].ref) = MediaId(env, step)
         /\ MediaId(env, step) => step.calls[i].ref.featured_media = PlatformId("m", k)
  /\ ~step.raised => step.result.success = (env.third \in {"ok_id", "ok_noid"})
\* C29: on WordPress a failed image sub-step (download refused, upload
\* refused or without id, an exception in either) never fails the item:
\* once the item's checks passed, the post-create call is issued whatever
\* the image calls answered, as the last call of the item, and the outcome
\* follows the answer to it alone.  The post is a draft, and it carries
\* featured_media exactly when the upload returned a media id, which is the
\* id it carries.
C29_ImageFailureIsHarmless ==
  AtItem /\ platform = "wordpress" /\ ChecksPass =>
    \A env \in ReadReturns : DraftWhateverTheImage(idx + 1, env, StepWith(env))
\* a draft was created without featured_media after the image download failed
C29_DraftWithoutMedia ==
  /\ pc = "loop" /\ idx = 1 /\ platform = "wordpress"
  /\ results[1].success
  /\ Times(calls, "wp_download") = 1 /\ Times(calls, "wp_upload") = 0
  /\ calls[Len(calls)].op = "wp_post"
  /\ calls[Len(calls)].ref = [status |-> "draft", format |-> "standard"]

\* ---------------------------------------------------------------------- C30
Count(s, c) == Cardinality({i \in 1..Len(s) : s[i] = c})
\* where character i of the id starts in an address that has "/posts/" for
\* every underscore in front of it
PlaceOf(id, i) == Len(FbBase) + i + (Len(PostsPath) - 1) * Count(SubSeq(id, 1, i - 1), "_")
\* url is the base followed by id with "/posts/" in the place of every underscore
EveryUnderscore(id, url) ==
  /\ Len(url) = Len(FbBase) + Len(id) + (Len(PostsPath) - 1) * Count(id, "_")
  /\ SubSeq(url, 1, Len(FbBase)) = FbBase
  /\ \A i \in 1..Len(id) :
       IF id[i] = "_"
       THEN SubSeq(url, PlaceOf(id, i), PlaceOf(id, i) + Len(PostsPath) - 1) = PostsPath
       ELSE url[PlaceOf(id, i)] = id[i]
\* the success records that carry a post id
WithPostId == {k \in 1..Len(results) : results[k].success /\ Truthy(results[k].post_id)}
\* C30 (amended): the address of a Facebook post is the base address
\* followed by the returned id in which every underscore, the first and
\* any later one, is replaced by "/posts/"; no underscore of the id is left
\* in the address.
C30_EveryUnderscoreReplaced ==
  platform = "facebook" =>
    \A k \in WithPostId :
      /\ EveryUnderscore(results[k].post_id.s, results[k].post_url.s)
      /\ Count(SubSeq(results[k].post_url.s, Len(FbBase) + 1, Len(results[k].post_url.s)),
               "_") = 0
\* a post whose id has two underscores has been recorded
C30_TwoUnderscores ==
  /\ pc = "loop" /\ idx = 1 /\ platform = "facebook"
  /\ 1 \in WithPostId
  /\ Count(results[1].post_id.s, "_") = 2
  /\ Count(results[1].post_url.s, "_") = 0
\* C30 as stated: only the first underscore of the id is replaced, so the
\* address keeps every later underscore of the id.
C30_FirstUnderscoreOnly ==
  platform = "facebook" =>
    \A k \in WithPostId :
      Count(results[k].post_id.s, "_") >= 1 =>
        Count(results[k].post_url.s, "_") = Count(results[k].post_id.s, "_") - 1

\* ---------------------------------------------------------------------- C31
\* the accepted shapes of the images field: an array of URLs, one object
\* with a url, or the JSON text of either
UrlArray(v) == v.t = "list" /\ \A i \in 1..Len(v.v) : v.v[i].t = "str" /\ Truthy(v.v[i])
UrlObject(v) == v.t = "dict" /\ DictGet(v, <<"url">>).t = "str" /\ Truthy(DictGet(v, <<"url">>))
Decoded(images) ==
  IF images.t = "str" /\ JsonLoads(images.s).ok THEN JsonLoads(images.s).v ELSE images
AcceptedShape(images) == UrlArray(Decoded(images)) \/ UrlObject(Decoded(images))
\* the image URLs of an article whose images field has value v
ImageUrls(v) == IF v.t = "list" THEN v.v ELSE <<DictGet(v, <<"url">>)>>
\* the non-empty lines of a text, stripped, in order
NonEmptyLines(lines) == SelectSeq([i \in 1..Len(lines) |-> PyStrip(lines[i])], LAMBDA l : l # <<>>)
\* body has one image paragraph per image URL in urls, then one paragraph
\* per line in lines, then the attribution
BodyAsDescribed(body, urls, lines, url) ==
  /\ Len(body) = Len(urls) + Len(lines) + 1
  /\ \A i \in 1..Len(urls) : body[i] = ImgPara(urls[i])
  /\ \A i \in 1..Len(lines) : body[Len(urls) + i] = TextPara(lines[i])
  /\ body[Len(body)] = SourcePara(url)
\* the body sent by the PIXNET request among the calls cs
SentBody(cs) == cs[CHOOSE i \in 1..Len(cs) : cs[i].op = "px_post_oauth2"].ref.body
\* C31 as stated: for every accepted shape of the images field the body of
\* a PIXNET post holds one image paragraph per image URL of the article,
\* in front of one paragraph per non-empty line of the effective content,
\* and the attribution paragraph last; no image paragraph has another src.
C31_BodyAsDescribed ==
  pc = "loop" /\ idx = 1 /\ platform = "pixnet" /\ Times(calls, "px_post_oauth2") = 1
    /\ AcceptedShape(store[1].images) =>
      BodyAsDescribed(SentBody(calls), ImageUrls(Decoded(store[1].images)),
                      NonEmptyLines(PySplit(EffectiveContent(store[1]).s, "\n")),
                      store[1].url)

\* ---------------------------------------------------------------------- C32
\* the token data Instagram has after import: the configured token, never
\* refreshed, the default validity
ConfiguredInstagram == TokenData(0, NoTime, DefaultTTL)
\* C32: without the Instagram app id and secret the freshness check never
\* calls the refresh endpoint and never changes the token state, however
\* much time has passed: it returns the configured token with no call, the
\* token data stay as imported, and an Instagram batch carries the
\* configured token in every platform call.
C32_NoRefreshWithoutApp ==
  ~ig_app =>
    /\ instagram_token_data = ConfiguredInstagram
    /\ \A resp \in RefreshOutcomes(instagram_token_data), db \in DbOutcomes :
         RefreshFor("instagram", resp, db)
           = Refreshed(ConfiguredInstagram, settings, ConfiguredInstagram.access_token, <<>>)
    /\ platform = "instagram" /\ pc \in {"loop", "returned", "raised"} =>
         /\ current_token = ConfiguredInstagram.access_token
         /\ Times(calls, "ig_refresh") = 0
         /\ \A i \in 1..Len(calls) :
              calls[i].op \in TokenOps => calls[i].tok = ConfiguredInstagram.access_token
\* an Instagram item was published with the configured token a validity
\* window after import, without app id and secret
C32_OldTokenStillUsed ==
  /\ ~ig_app
  /\ now >= DefaultTTL - RefreshMargin
  /\ pc = "loop" /\ idx = 1 /\ platform = "instagram"
  /\ results[1].success
  /\ \E i \in 1..Len(calls) : calls[i].op = "ig_publish" /\ calls[i].tok = 0

\* ---------------------------------------------------------------------- C33
\* a step in which the process restarts
Restarts ==
  /\ pc' = "idle" /\ calls' = <<>> /\ results' = <<>> /\ current_token' = -1
  /\ \E db \in ImportOutcomes :
       /\ threads_token_data' = ImportedThreads(settings, db)
       /\ instagram_token_data' = ImportedInstagram(settings, db)
\* what a restart keeps of the refresh times, and what the first batch
\* behind it does
RestartKeepsThreads ==
  /\ Restarts =>
       /\ threads_token_data'.last_refresh \in {settings.threads_last_refresh, NoTime}
       /\ instagram_token_data'.last_refresh = NoTime
  /\ pc = "idle" /\ pc' = "loop" /\ platform' = "threads"
       /\ ThreadsTokenFresh(threads_token_data, now) => Times(calls', "th_refresh") = 0
  /\ pc = "idle" /\ pc' = "loop" /\ platform' = "instagram" /\ ig_app
       /\ instagram_token_data.last_refresh = NoTime => Times(calls', "ig_refresh") = 1
\* C33 (amended): only the Threads refresh time survives a restart, and
\* only through the settings store: after a restart the in-memory Threads
\* last_refresh is the stored threads_last_refresh (the time of the last
\* refresh that was persisted), or unset when the settings cannot be read,
\* and the first Threads batch makes no refresh call while that time is
\* within the freshness window.  The Instagram last_refresh is unset after
\* every restart, so with app id and secret the first Instagram batch
\* calls the refresh endpoint.
C33_ThreadsRefreshTimeSurvives == [][RestartKeepsThreads]_vars
\* a Threads batch has started without a refresh call, on the refresh time
\* that a refresh before the restart left in the settings
C33_FreshAfterRestart ==
  /\ pc = "loop" /\ idx = 0 /\ platform = "threads" /\ items # <<>>
  /\ threads_token_data.access_token = 0
  /\ threads_token_data.last_refresh > 0
  /\ settings.threads_last_refresh = threads_token_data.last_refresh
  /\ calls = <<>>
\* a restart keeps the refresh time of every refreshable platform
RestartKeepsAll ==
  Restarts =>
    /\ threads_token_data.last_refresh # NoTime =>
         threads_token_data'.last_refresh = threads_token_data.last_refresh
    /\ instagram_token_data.last_refresh # NoTime =>
         instagram_token_data'.last_refresh = instagram_token_data.last_refresh
\* C33 as stated: for Instagram and Threads alike, the in-memory
\* last_refresh after a restart equals the time of the successful refresh
\* before it.
C33_RefreshTimeSurvives == [][RestartKeepsAll]_vars

\* ---------------------------------------------------------------------- C34
\* the article of the item at hand is stored with a null url
NullUrlAtHand == AtItem /\ RowOf(items[idx + 1]) # NoRow /\ RowOf(items[idx + 1]).url = PyNone
\* C34 as stated: an article stored with a null url does not break the
\* isolation of the batch: whatever the outside answers, the iteration of
\* its item ends with one more record and the loop goes on, and no batch
\* ends with an exception instead of its report.
C34_NullUrlIsolated ==
  /\ NullUrlAtHand =>
       \A env \in ItemEnvs(platform) :
         /\ ~StepWith(env).raised
         /\ StepWith(env).result.news_id = items[idx + 1].news_id
  /\ pc # "raised"
  /\ pc = "returned" => Len(results) = Len(items)

\* ---------------------------------------------------------------------- C35
\* C35 as stated: the failure record of an item whose lookup returned no
\* row has an empty news_url, also behind an item that was fetched; no
\* record carries the url of the article of another item.
C35_OwnDataOnly ==
  \A k \in 1..Len(results) :
    /\ results[k].error = "not_found" => results[k].news_url = EmptyStr
    /\ RowOf(items[k]) = NoRow => results[k].news_url = EmptyStr
    /\ RowOf(items[k]) # NoRow => results[k].news_url \in {EmptyStr, RowOf(items[k]).url}

\* ---------------------------------------------------------------------- C36
\* a restart behind a refresh leaves the refreshed token in memory
RestartKeepsToken ==
  Restarts /\ threads_token_data.access_token # 0
    /\ ThreadsTokenFresh(threads_token_data', now) =>
      threads_token_data'.access_token = threads_token_data.access_token
\* C36 as stated: after a restart that follows a successful Threads
\* refresh, the in-memory Threads token is the token that refresh obtained
\* and not the configured one, whenever the restored last_refresh makes
\* the token count as fresh.
C36_TokenSurvives == [][RestartKeepsToken]_vars

\* ---------------------------------------------------------------------- C37
\* what a step does to the token data td of a platform with refresh
\* endpoint op, tdp being the data after the step
TokenChange(td, tdp, op) ==
  /\ tdp # td =>
       /\ pc = "idle" /\ pc' = "loop"
       /\ Times(calls', op) = 1
       /\ tdp.access_token # td.access_token
       /\ tdp.last_refresh = now
       /\ tdp.expires_in \in {DefaultTTL, AltTTL}
  /\ tdp.last_refresh >= td.last_refresh
  /\ calls' # calls /\ Times(calls', op) >= 1 =>
       \/ td.last_refresh = NoTime
       \/ now >= td.last_refresh + td.expires_in - RefreshMargin
\* C37: in one process the token state of Threads and of Instagram changes
\* only in a successful refresh, which sets access_token, last_refresh
\* (to the time of the refresh) and the validity together; last_refresh
\* never decreases; and behind a successful refresh at time t that stored
\* the validity ttl no refresh call is made before t + ttl - 86400.
C37_TokenStateDiscipline ==
  [][ /\ TokenChange(threads_token_data, threads_token_data', "th_refresh")
      /\ TokenChange(instagram_token_data, instagram_token_data', "ig_refresh") ]_vars
\* a batch has started without a refresh call some time behind a refresh
C37_NoCallInsideWindow ==
  /\ pc = "loop" /\ idx = 0 /\ items # <<>> /\ calls = <<>>
  /\ platform \in TokenPlatforms
  /\ TokenDataOf(platform).access_token = 1
  /\ TokenDataOf(platform).last_refresh > 0
  /\ now > TokenDataOf(platform).last_refresh

\* ---------------------------------------------------------------- C38
\* The step in which the refresh routine writes its metadata back.
WritesBack == pc = "save" /\ pc' = "idle"

\* C38: persisting the Threads last_refresh changes only the key
\* threads_last_refresh of the settings table: the other key holds after
\* the write-back what it held before it, whatever another writer has
\* written since the routine read the table.
C38_NoLostUpdate == [][WritesBack => settings'.other_key = settings.other_key]_vars

\* ---------------------------------------------------------------- C39
\* a rewrite item is at hand
RewriteAtHand == pc = "loop" /\ platform = "rewrite" /\ idx < Len(items)

\* What the iteration step for item it does to the store st: no article is
\* added or removed, an article with another url is left as it is, an
\* article with the url differs in the two modified fields at most, a
\* success leaves the result's title and content in every article with
\* the url, and an item without url fails without a call and a write.
TouchesOnlyItsUrl(it, st, step) ==
  /\ DOMAIN step.store = DOMAIN st
  /\ \A i \in DOMAIN st :
       /\ SameButModified(st[i], step.store[i])
       /\ st[i].url # it.url => step.store[i] = st[i]
  /\ step.result.success =>
       /\ Matching(st, it.url) # {}
       /\ \A i \in Matching(st, it.url) :
            /\ step.store[i].title_modified = step.result.title_modified
            /\ step.store[i].content_modified = step.result.content_modified
  /\ ~Truthy(it.url) =>
       /\ ~step.raised
       /\ ~step.result.success
       /\ step.calls = <<>>
       /\ step.store = st

\* C39: a rewrite for url U changes title_modified and content_modified of
\* exactly the stored articles whose url is U, all of them when several
\* share U, and nothing else in the store; an item without a url yields
\* a failure result with no completion call and no store write, and the
\* report's total counts every item of the request.
C39_RewriteByUrl ==
  /\ RewriteAtHand =>
       \A c \in CompletionOutcomes, upd \in UpdateOutcomes :
         TouchesOnlyItsUrl(items[idx + 1], store,
                           RewriteStep(items[idx + 1], idx + 1, store, c, upd))
  /\ (platform = "rewrite" /\ pc = "returned") => report.total = Len(items)

\* A returned rewrite batch of an item for the url two articles share and
\* an item without url: both articles hold the rewritten title and
\* content, and the total is two.
C39_SharedUrlRewritten ==
  /\ platform = "rewrite"
  /\ pc = "returned"
  /\ Len(items) = 2
  /\ items[1].url = Str("u1")
  /\ ~Truthy(items[2].url)
  /\ store[1].url = store[2].url
  /\ \A i \in DOMAIN store :
       store[i].title_modified = Str("A") /\ store[i].content_modified = Str("B")
  /\ results[1].success
  /\ ~results[2].success
  /\ report.total = 2

\* ---------------------------------------------------------------- C40
\* C40: every accepted publish or rewrite batch eventually returns its
\* report: a handler in its item loop comes to the return of the report.
C40_BatchReturnsReport == (pc = "loop") ~> (pc = "returned")

====
